---- MODULE Spec2Model ----
(***************************************************************************)
(* Recovery-mode OTA package installer (install.c): the install_package    *)
(* pipeline, the dispatch between the update-binary and the legacy         *)
(* update-script, and the pipe protocol between try_update_binary and the  *)
(* child it forks.  Text is modelled at the level of bytes: a string is a  *)
(* sequence of one-character strings, so that fgets and strtok are         *)
(* computed as the C library computes them.                                *)
(***************************************************************************)
EXTENDS Integers, Sequences, FiniteSets, TLC

\* ------------------------------------------------------------------ bounds

\* The child performs at most MaxWrites write() calls before it exits.
MaxWrites == 2

\* Capacity of the pipe between child and parent, in bytes.
PipeCap == 16

\* ------------------------------------------------------- program constants

\* install.h: enum { INSTALL_SUCCESS, INSTALL_ERROR, INSTALL_CORRUPT }
INSTALL_SUCCESS == 0
INSTALL_ERROR == 1
INSTALL_CORRUPT == 2

\* The literal try_update_binary returns when the temporary binary cannot
\* be created or extracted.
TMP_BINARY_FAILURE == 1

\* char buffer[1024] handed to fgets.
BUFFER_SIZE == 1024

\* strlen("PACKAGE:"), the length strncmp compares.
PACKAGE_PREFIX_LEN == 8

\* Fractions are fixed-point numbers, in thousandths: ONE is 1.0.
ONE == 10 * 10 * 10

\* VERIFICATION_PROGRESS_FRACTION, "half the progress bar", in thousandths.
VERIFICATION_PROGRESS_FRACTION == 500

\* VERIFICATION_PROGRESS_TIME, the seconds verification is given.
VERIFICATION_PROGRESS_TIME == 60

\* A variable holding no value yet (an int that was not assigned).
UNSET == 0 - 1

\* The null pointer, where a string is expected.
NULL == << "(null)" >>

\* -------------------------------------------------------------------- text

SP == " "
NL == "\n"

Digits == << "0", "1", "2", "3", "4", "5", "6", "7", "8", "9" >>

IsDigit(c) == \E d \in 1..10 : Digits[d] = c

DigitVal(c) == (CHOOSE d \in 1..10 : Digits[d] = c) - 1

Spaces(n) == [i \in 1..n |-> SP]

Drop(s, n) == IF n >= Len(s) THEN << >> ELSE SubSeq(s, n + 1, Len(s))

Take(s, n) == IF n >= Len(s) THEN s ELSE SubSeq(s, 1, n)

RECURSIVE Concat(_)
Concat(ss) == IF ss = << >> THEN << >> ELSE Head(ss) \o Concat(Tail(ss))

\* Index of the first character of s that is in set D, or Len(s)+1.
FirstIn(s, D) ==
    CHOOSE i \in 1..(Len(s) + 1) :
        /\ i = Len(s) + 1 \/ s[i] \in D
        /\ \A j \in 1..(i - 1) : s[j] \notin D

\* Index of the first character of s that is not in set D, or Len(s)+1.
FirstNotIn(s, D) ==
    CHOOSE i \in 1..(Len(s) + 1) :
        /\ i = Len(s) + 1 \/ s[i] \notin D
        /\ \A j \in 1..(i - 1) : s[j] \in D

\* The verbs of the protocol and the words the child's lines are made of.
W_progress == << "p", "r", "o", "g", "r", "e", "s", "s" >>
W_set_progress == << "s", "e", "t", "_" >> \o W_progress
W_firmware == << "f", "i", "r", "m", "w", "a", "r", "e" >>
W_ui_print == << "u", "i", "_", "p", "r", "i", "n", "t" >>
W_PACKAGE == << "P", "A", "C", "K", "A", "G", "E", ":" >>
W_bogus == << "b", "o", "g", "u", "s" >>
W_radio == << "r", "a", "d", "i", "o" >>
W_hboot == << "h", "b", "o", "o", "t" >>
W_file == << "/", "f" >>
W_entry == << "r" >>
W_hi == << "h", "i" >>

\* ------------------------------------------------------------- C library

\* strtok: skip the delimiters in D, cut the token at the next delimiter.
\* tok is NULL when only delimiters are left; rest is what a later
\* strtok(NULL, ...) continues with.
strtok(s, D) ==
    LET b == FirstNotIn(s, D)
        t == Drop(s, b - 1)
        e == FirstIn(t, D)
    IN  IF b > Len(s)
        THEN [tok |-> NULL, rest |-> << >>]
        ELSE [tok |-> Take(t, e - 1), rest |-> Drop(t, e)]

\* The value of the leading decimal digits of s, and how many there are.
RECURSIVE DecVal(_, _)
DecVal(s, acc) ==
    IF s = << >> \/ ~IsDigit(Head(s)) THEN acc
    ELSE DecVal(Tail(s), 10 * acc + DigitVal(Head(s)))

DecLen(s) == FirstNotIn(s, {Digits[d] : d \in 1..10}) - 1

\* strtol(s, NULL, 10): optional sign, decimal digits; 0 when there is none.
strtol(s) ==
    LET neg == s # << >> /\ Head(s) = "-"
        body == IF s # << >> /\ Head(s) \in {"-", "+"} THEN Tail(s) ELSE s
    IN  IF neg THEN 0 - DecVal(body, 0) ELSE DecVal(body, 0)

\* strtof(s, NULL) in thousandths: optional sign, digits, optional point
\* and digits (the first three decimals are kept); 0 when there is none.
strtof(s) ==
    LET neg == s # << >> /\ Head(s) = "-"
        body == IF s # << >> /\ Head(s) \in {"-", "+"} THEN Tail(s) ELSE s
        ilen == DecLen(body)
        after == Drop(body, ilen)
        frac == IF after # << >> /\ Head(after) = "." THEN Tail(after) ELSE << >>
        f3 == Take(Take(frac, DecLen(frac)) \o << "0", "0", "0" >>, 3)
        mag == ONE * DecVal(body, 0) + DecVal(f3, 0)
    IN  IF neg THEN 0 - mag ELSE mag

\* strncmp(filename, "PACKAGE:", 8) == 0
HasPackagePrefix(filename) == Take(filename, PACKAGE_PREFIX_LEN) = W_PACKAGE

\* What one fgets(buffer, sizeof(buffer), f) returns from the bytes `avail`
\* the stream holds: the bytes up to and including the first newline, at
\* most sizeof(buffer)-1 of them.  << >> when the stream cannot complete a
\* line yet (fgets goes on reading) unless eof, where it returns what is
\* left (and NULL, here << >>, when nothing is left).
fgets(avail, eof) ==
    LET n == FirstIn(avail, {NL})
        limit == BUFFER_SIZE - 1
    IN  IF n <= Len(avail) /\ n <= limit THEN Take(avail, n)
        ELSE IF Len(avail) >= limit THEN Take(avail, limit)
        ELSE IF eof THEN avail
        ELSE << >>

\* ------------------------------------------------- the child's behaviour

\* What the update-binary prints for a fraction (thousandths) and an int:
\* "%d.%03d" and "%d", for values >= 0.
FmtInt(n) ==
    IF n < 10 THEN << Digits[n + 1] >>
    ELSE << Digits[(n \div 10) + 1], Digits[(n % 10) + 1] >>

FmtFrac(m) ==
    FmtInt(m \div ONE) \o << "." >>
        \o << Digits[((m \div 100) % 10) + 1], Digits[((m \div 10) % 10) + 1],
              Digits[(m % 10) + 1] >>

ProgressLine(f, s) == W_progress \o << SP >> \o FmtFrac(f) \o << SP >> \o FmtInt(s) \o << NL >>

SetProgressLine(f) == W_set_progress \o << SP >> \o FmtFrac(f) \o << NL >>

FirmwareLine(type, target) == W_firmware \o << SP >> \o type \o << SP >> \o target \o << NL >>

\* A line longer than the parent's buffer: an unknown verb, blanks up to
\* the buffer's limit, then the text of a firmware command.
LongLine == W_bogus \o Spaces((BUFFER_SIZE - 1) - Len(W_bogus)) \o FirmwareLine(W_radio, W_file)

\* The byte strings one write() of the child may carry.
ChildWrites ==
    << FirmwareLine(W_radio, W_PACKAGE \o W_entry),
       FirmwareLine(W_hboot, W_file),
       W_firmware \o << SP >> \o W_radio \o << NL >>,
       W_bogus \o << SP, "1", NL >>,
       << NL >>,
       W_progress \o << NL >>,
       W_ui_print \o << SP >> \o W_hi \o << NL >>,
       W_ui_print,
       ProgressLine(500, 0),
       ProgressLine(250, 5),
       SetProgressLine(300) \o SetProgressLine(ONE),
       SetProgressLine(700),
       LongLine >>

NumWrites == Len(ChildWrites)

\* A child is the sequence of writes it performs before it exits.
Scripts == UNION {[1..n -> 1..NumWrites] : n \in 0..MaxWrites}

\* All the bytes the first n writes of script sc put on the pipe.
Stream(sc, n) == Concat([i \in 1..n |-> ChildWrites[sc[i]]])

ExitStatuses == {"exit0", "exit1", "signal"}

\* CleanExit without the test of the exit code.
CleanExit_AnyCode(st) == st # "signal"

\* WIFEXITED(status) && WEXITSTATUS(status) == 0
CleanExit(st) == st = "exit0"

\* ------------------------------------------------------------------ state

VARIABLES
    pc,                 \* where install_package (with its callees) stands
    steps,              \* the pipeline steps that succeeded in this call, in order
    failed,             \* the pipeline step that failed, "" if none
    ret,                \* install_package's return value
    zip_open,           \* the archive handle is open
    has_binary,         \* mzFindZipEntry found the update-binary entry
    has_script,         \* find_update_script found the update-script entry
    result,             \* handle_update_package's result: try_update_binary's return value
    tub_exit,           \* the return statement try_update_binary left by
    tmp_binary,         \* /tmp/update_binary: "absent", "stale", "empty", "fresh"
    forks,              \* fork() calls that created a child
    script,             \* the child's program: the writes it performs
    child_pc,           \* "none", "running", "exited"
    child_w,            \* the write the child is performing (index in script)
    child_off,          \* bytes of that write already on the pipe
    pipe,               \* bytes in the pipe
    inbuf,              \* bytes from_child has read and fgets has not returned yet
    chunks,             \* number of fgets calls that returned a string
    firmware_type,      \* try_update_binary's firmware_type
    firmware_filename,  \* try_update_binary's firmware_filename
    status,             \* what waitpid stored: how the child ended
    fw_calls,           \* calls of handle_firmware_update
    fw_exit,            \* the return statement handle_firmware_update left by
    remember_calls,     \* calls of remember_firmware_update
    script_lookups,     \* calls of find_update_script
    script_runs,        \* calls of handle_update_script
    script_result,      \* what handle_update_script returned
    seg_size,           \* display: size of the current progress segment
    seg_time,           \* display: seconds the segment fills over
    seg_pos,            \* display: position within the segment
    seg_count,          \* display: segments begun
    loadedKeys,         \* install_package's loadedKeys: "NULL", "held", "freed"
    fork_calls,         \* calls of fork()
    data_size,          \* handle_firmware_update's data_size
    data_got,           \* bytes of the payload that were read into data
    ui_log,             \* the display calls made, in order
    attempts            \* how the earlier runs of try_update_binary ended

childVars == << script, child_pc, child_w, child_off >>
pipeVars == << pipe, inbuf, chunks >>
fwVars == << firmware_type, firmware_filename >>
hfuVars == << fw_calls, fw_exit, remember_calls >>
scriptVars == << script_lookups, script_runs, script_result >>
uiVars == << seg_size, seg_time, seg_pos, seg_count, ui_log >>
zipVars == << zip_open, has_binary, has_script >>
pipelineVars == << steps, failed, ret >>
tubVars == << result, tub_exit, tmp_binary, forks, status >>
payloadVars == << data_size, data_got >>
heldVars == << loadedKeys, fork_calls, payloadVars, attempts >>

installVars == << pc, pipelineVars, zipVars, tubVars, childVars, pipeVars,
                 fwVars, hfuVars, scriptVars, uiVars, heldVars >>

\* load_keys (install.c), taken on its own
VARIABLES
    key_file,           \* the key file: its records and what follows the last
    key_in,             \* the part of the stream f that was not read yet
    key_f,              \* load_keys's f: "NULL", "open" or "closed"
    key_pc,             \* where load_keys stands
    key_i,              \* load_keys's i
    numKeys,            \* *numKeys
    out,                \* the array out points to (<< >> when out is NULL)
    keys_ret            \* what load_keys returned: "NULL" or "out"

keyVars == << key_file, key_in, key_f, key_pc, key_i, numKeys, out, keys_ret >>

\* ensure_read and ensure_write (extra.c), taken on their own
VARIABLES
    io_op,              \* the function called: "ensure_read" or "ensure_write"
    io_size,            \* its size argument
    io_n,               \* its n
    io_pc,              \* "idle", "loop" or "returned"
    io_ret,             \* what it returned
    io_calls,           \* what the read() or write() calls returned, in order
    io_asked            \* the byte counts those calls were asked for, in order

ioVars == << io_op, io_size, io_n, io_pc, io_ret, io_calls, io_asked >>

\* recovery.c: main with get_args, prompt_and_wait and finish_recovery
VARIABLES
    rpc,                \* where main (with its callees) stands
    boots,              \* how often recovery was started
    args_in,            \* the invocation's arguments after the program name
    argv,               \* the arguments get_args resolved (without argv[0])
    opts,               \* main's send_intent, update_package, wipe_data, wipe_cache
    rstatus,            \* main's status
    todo,               \* the destructive calls the running command still makes
    busy,               \* the destructive call in progress ("" if none)
    caller,             \* who runs the command: "main", "menu_wipe", "menu_install"
    menus,              \* menu selections made in prompt_and_wait
    fw_pending,         \* firmware_update_pending()
    bcb,                \* the bootloader control block: command and recovery
    cmd_file,           \* CACHE:recovery/command (NoFile when absent)
    intent,             \* CACHE:recovery/intent (NoFile when absent)
    tmplog,             \* /tmp/recovery.log
    tmplog_offset,      \* finish_recovery's static tmplog_offset
    appends,            \* lines appended to the temporary log in this run
    log,                \* CACHE:recovery/log
    persisted,          \* what get_args last wrote to the control block
    resolved,           \* what get_args resolved, one list for each return
    started,            \* main's arguments and the calls it selected, each time
    main_calls,         \* the calls main's command has made, with what they returned
    fr_calls,           \* calls of finish_recovery since get_args last returned
    fr_how,             \* how the last finish_recovery call went
    copied              \* the bytes finish_recovery appended to log in this run

procVars == << args_in, argv, opts, rstatus, todo, busy, caller, menus,
              fw_pending >>

recVars == << rpc, boots, args_in, argv, opts, rstatus, todo, busy, caller, menus,
              fw_pending, bcb, cmd_file, intent, tmplog, tmplog_offset, appends,
              log, persisted, resolved, started, main_calls, fr_calls, fr_how, copied >>

\* handle_update_script with read_data (install.c), taken on its own
VARIABLES
    hus_pc,             \* where handle_update_script stands
    hus_entry,          \* the update-script entry: its length and its bytes
    rd_ret,             \* what read_data returned
    hus_got,            \* bytes of the entry that were read into the buffer
    script_data,        \* the buffer, with the '\0' read_data puts behind it
    script_len,         \* handle_update_script's script_len
    commands,           \* parseAmendScript's result: "unset", "NULL", "list"
    exec_calls,         \* calls of execCommandList
    num,                \* the diagnostic's num
    hus_ret,            \* handle_update_script's ret, counted down by the loop
    line_p,             \* the diagnostic's line (an offset in the buffer)
    next_p,             \* the diagnostic's next (an offset in the buffer)
    diag,               \* the text the diagnostic gives for the line
    hus_value           \* what handle_update_script returned

husVars == << hus_pc, hus_entry, rd_ret, hus_got, script_data, script_len,
              commands, exec_calls, num, hus_ret, line_p, next_p, diag, hus_value >>

\* finish_recovery (recovery.c), statement by statement
VARIABLES
    fr_pc,              \* where finish_recovery stands
    fr_done             \* the steps this call of finish_recovery went through

fsVars == << fr_pc, fr_done >>

\* The menus of wipe_data and process_partition (recovery.c) and
\* get_menu_selection (recovery_ui.c), key by key
VARIABLES
    m_fn,               \* the function that runs: "wipe_data", "process_partition"
    m_pc,               \* where it stands
    confirm,            \* wipe_data's parameter
    selected,           \* the highlighted item
    chosen_item,        \* get_menu_selection's chosen_item
    key,                \* the last key ui_wait_key gave
    action,             \* what device_handle_key made of it
    presses,            \* keys taken so far
    mbsd,               \* process_partition: the card's size in MB
    mbvf,               \* the vfat partition's size
    mbex,               \* the ext3 partition's size
    mbsw,               \* the swap partition's size
    m_calls             \* the calls that change the device, in order

menuVars == << m_fn, m_pc, confirm, selected, chosen_item, key, action, presses,
               mbsd, mbvf, mbex, mbsw, m_calls >>

otherVars == << keyVars, ioVars, recVars, husVars, fsVars, menuVars >>

vars == << installVars, otherVars >>

\* load_keys is not running.
KeysIdle ==
    /\ key_file = << >>
    /\ key_in = << >>
    /\ key_f = "NULL"
    /\ key_pc = "idle"
    /\ key_i = 0
    /\ numKeys = 0
    /\ out = << >>
    /\ keys_ret = ""

\* handle_update_script is not running.
ScriptIdle ==
    /\ hus_pc = "idle"
    /\ hus_entry = [len |-> 0, text |-> << >>]
    /\ rd_ret = UNSET
    /\ hus_got = UNSET
    /\ script_data = << >>
    /\ script_len = UNSET
    /\ commands = "unset"
    /\ exec_calls = 0
    /\ num = 0
    /\ hus_ret = 0
    /\ line_p = UNSET
    /\ next_p = UNSET
    /\ diag = << >>
    /\ hus_value = UNSET

\* finish_recovery is not taken statement by statement.
StepsIdle ==
    /\ fr_pc = "idle"
    /\ fr_done = << >>

\* No menu function is running.
MenusIdle ==
    /\ m_fn = ""
    /\ m_pc = "idle"
    /\ confirm = 0
    /\ selected = 0
    /\ chosen_item = 0 - 1
    /\ key = ""
    /\ action = 0 - 1
    /\ presses = 0
    /\ mbsd = 0
    /\ mbvf = 0
    /\ mbex = 0
    /\ mbsw = 0
    /\ m_calls = << >>

PipelineSteps == << "mount", "translate", "load_keys", "open", "verify" >>

InitInstall ==
    /\ pc = "install_package"
    /\ steps = << >>
    /\ failed = ""
    /\ ret = UNSET
    /\ zip_open = FALSE
    /\ has_binary = FALSE
    /\ has_script = FALSE
    /\ result = UNSET
    /\ tub_exit = ""
    /\ tmp_binary \in {"absent", "stale"}
    /\ forks = 0
    /\ script = << >>
    /\ child_pc = "none"
    /\ child_w = 1
    /\ child_off = 0
    /\ pipe = << >>
    /\ inbuf = << >>
    /\ chunks = 0
    /\ firmware_type = NULL
    /\ firmware_filename = NULL
    /\ status = ""
    /\ fw_calls = 0
    /\ fw_exit = ""
    /\ remember_calls = 0
    /\ script_lookups = 0
    /\ script_runs = 0
    /\ script_result = UNSET
    /\ seg_size = 0
    /\ seg_time = 0
    /\ seg_pos = 0
    /\ seg_count = 0
    /\ loadedKeys = "NULL"
    /\ fork_calls = 0
    /\ data_size = UNSET
    /\ data_got = UNSET
    /\ ui_log = << >>
    /\ attempts = << >>

\* Neither ensure_read nor ensure_write is running.
IoIdle ==
    /\ io_op = ""
    /\ io_size = 0
    /\ io_n = 0
    /\ io_pc = "idle"
    /\ io_ret = UNSET
    /\ io_calls = << >>
    /\ io_asked = << >>

\* A zeroed struct bootloader_message.
NoMessage == [command |-> "", recovery |-> << >>]

\* A file that does not exist.
NoFile == << "ENOENT" >>

NoOptions == [send_intent |-> NULL, update_package |-> NULL,
              wipe_data |-> 0, wipe_cache |-> 0]

\* No finish_recovery call was made.
NoFinish == "none"

\* recovery is not running.
RecoveryIdle ==
    /\ rpc = "idle"
    /\ boots = 0
    /\ args_in = << >>
    /\ argv = << >>
    /\ opts = NoOptions
    /\ rstatus = INSTALL_SUCCESS
    /\ todo = << >>
    /\ busy = ""
    /\ caller = ""
    /\ menus = 0
    /\ fw_pending = FALSE
    /\ bcb = NoMessage
    /\ cmd_file = NoFile
    /\ intent = NoFile
    /\ tmplog = << >>
    /\ tmplog_offset = 0
    /\ appends = 0
    /\ log = NoFile
    /\ persisted = NoMessage
    /\ resolved = << >>
    /\ started = << >>
    /\ main_calls = << >>
    /\ fr_calls = 0
    /\ fr_how = NoFinish
    /\ copied = << >>

Init == InitInstall /\ KeysIdle /\ IoIdle /\ RecoveryIdle /\ ScriptIdle /\ StepsIdle
        /\ MenusIdle

\* -------------------------------------------------------- the display (ui)

\* ui_show_progress(portion, seconds): a new segment begins, at position 0.
ui_show_progress(portion, seconds) ==
    /\ seg_size' = portion
    /\ seg_time' = seconds
    /\ seg_pos' = 0
    /\ seg_count' = seg_count + 1
    /\ ui_log' = Append(ui_log, [call |-> "ui_show_progress",
                                  num |-> << portion, seconds >>, str |-> << >>])

Clamp(fraction) == IF fraction < 0 THEN 0 ELSE IF fraction > ONE THEN ONE ELSE fraction

\* ui_set_progress(fraction): the position within the segment, clamped to
\* [0,1]; the position never moves back within a segment.
ui_set_progress(fraction) ==
    /\ seg_pos' = IF Clamp(fraction) > seg_pos THEN Clamp(fraction) ELSE seg_pos
    /\ UNCHANGED << seg_size, seg_time, seg_count >>
    /\ ui_log' = Append(ui_log, [call |-> "ui_set_progress",
                                  num |-> << fraction >>, str |-> << >>])

\* ui_print(str): the text goes to the screen.
ui_print(str) ==
    /\ ui_log' = Append(ui_log, [call |-> "ui_print", num |-> << >>, str |-> str])
    /\ UNCHANGED << seg_size, seg_time, seg_pos, seg_count >>

\* -------------------------------------------------------- install_package

\* A step of the pipeline that fails returns v from install_package.
FailStep(name, v) ==
    /\ failed' = name
    /\ ret' = v
    /\ pc' = "done"
    /\ UNCHANGED steps

PassStep(name, next) ==
    /\ steps' = Append(steps, name)
    /\ pc' = next
    /\ UNCHANGED << failed, ret >>

\* ensure_root_path_mounted(root_path) != 0  =>  INSTALL_CORRUPT
Mount ==
    /\ pc = "install_package"
    /\ \E ok \in BOOLEAN :
          IF ok THEN PassStep("mount", "translate")
          ELSE FailStep("mount", INSTALL_CORRUPT)
    /\ UNCHANGED << otherVars, heldVars, zipVars, tubVars, childVars, pipeVars, fwVars, hfuVars,
                    scriptVars, uiVars >>

\* translate_root_path(...) == NULL  =>  INSTALL_CORRUPT
Translate ==
    /\ pc = "translate"
    /\ \E ok \in BOOLEAN :
          IF ok THEN PassStep("translate", "load_keys")
          ELSE FailStep("translate", INSTALL_CORRUPT)
    /\ UNCHANGED << otherVars, heldVars, zipVars, tubVars, childVars, pipeVars, fwVars, hfuVars,
                    scriptVars, uiVars >>

\* loadedKeys == NULL  =>  INSTALL_CORRUPT; otherwise verification is given
\* its share of the progress bar.
LoadKeys ==
    /\ pc = "load_keys"
    /\ \E ok \in BOOLEAN :
          IF ok
          THEN /\ PassStep("load_keys", "open")
               /\ loadedKeys' = "held"
               /\ ui_show_progress(VERIFICATION_PROGRESS_FRACTION,
                                   VERIFICATION_PROGRESS_TIME)
          ELSE /\ FailStep("load_keys", INSTALL_CORRUPT)
               /\ UNCHANGED << loadedKeys, uiVars >>
    /\ UNCHANGED << otherVars, fork_calls, payloadVars, attempts, zipVars, tubVars, childVars, pipeVars, fwVars, hfuVars,
                    scriptVars >>

\* OpenArchive reporting an archive that cannot be opened as INSTALL_ERROR.
OpenArchive_ReturnsError ==
    /\ pc = "open"
    /\ \E ok \in BOOLEAN :
          IF ok
          THEN /\ PassStep("open", "verify")
               /\ zip_open' = TRUE
               /\ UNCHANGED << has_binary, has_script >>
          ELSE /\ FailStep("open", INSTALL_ERROR)
               /\ UNCHANGED zipVars
    /\ UNCHANGED << otherVars, heldVars, tubVars, childVars, pipeVars, fwVars, hfuVars, scriptVars,
                    uiVars >>

\* mzOpenZipArchive(path, &zip) != 0  =>  INSTALL_CORRUPT
OpenArchive ==
    /\ pc = "open"
    /\ \E ok \in BOOLEAN :
          IF ok
          THEN /\ PassStep("open", "verify")
               /\ zip_open' = TRUE
               /\ UNCHANGED << has_binary, has_script >>
          ELSE /\ FailStep("open", INSTALL_CORRUPT)
               /\ UNCHANGED zipVars
    /\ UNCHANGED << otherVars, heldVars, tubVars, childVars, pipeVars, fwVars, hfuVars, scriptVars,
                    uiVars >>

\* Verify without its return: a failed verification falls through.
Verify_NoReturn ==
    /\ pc = "verify"
    /\ \E ok \in BOOLEAN :
          IF ok THEN PassStep("verify", "handle_update_package")
          ELSE /\ pc' = "handle_update_package"
               /\ failed' = "verify"
               /\ UNCHANGED << steps, ret >>
    /\ loadedKeys' = "freed"
    /\ UNCHANGED << otherVars, fork_calls, payloadVars, attempts, zipVars, tubVars, childVars, pipeVars, fwVars, hfuVars,
                    scriptVars, uiVars >>

\* err = verify_jar_signature(&zip, loadedKeys, numKeys); free(loadedKeys);
\* err != true  =>  INSTALL_CORRUPT
Verify ==
    /\ pc = "verify"
    /\ \E ok \in BOOLEAN :
          IF ok THEN PassStep("verify", "handle_update_package")
          ELSE FailStep("verify", INSTALL_CORRUPT)
    /\ loadedKeys' = "freed"
    /\ UNCHANGED << otherVars, fork_calls, payloadVars, attempts, zipVars, tubVars, childVars, pipeVars, fwVars, hfuVars,
                    scriptVars, uiVars >>

\* ------------------------------------------------------ try_update_binary

\* try_update_binary returns v by the return statement named how.
TubReturn(how, v) ==
    /\ result' = v
    /\ tub_exit' = how
    /\ pc' = "dispatch"

\* FindBinary reporting an absent entry as INSTALL_ERROR.
FindBinary_AbsentIsError ==
    /\ pc = "handle_update_package"
    /\ \E found \in BOOLEAN :
          /\ has_binary' = found
          /\ IF found
             THEN /\ pc' = "creat"
                  /\ UNCHANGED << result, tub_exit >>
             ELSE TubReturn("no_entry", INSTALL_ERROR)
    /\ UNCHANGED << tmp_binary, forks, status >>
    /\ UNCHANGED << zip_open, has_script >>
    /\ UNCHANGED << otherVars, heldVars, pipelineVars, childVars, pipeVars, fwVars, hfuVars,
                    scriptVars, uiVars >>

\* handle_update_package calls try_update_binary, which looks the
\* update-binary entry up: absent => INSTALL_CORRUPT.
FindBinary ==
    /\ pc = "handle_update_package"
    /\ \E found \in BOOLEAN :
          /\ has_binary' = found
          /\ IF found
             THEN /\ pc' = "creat"
                  /\ UNCHANGED << result, tub_exit >>
             ELSE TubReturn("no_entry", INSTALL_CORRUPT)
    /\ UNCHANGED << tmp_binary, forks, status >>
    /\ UNCHANGED << zip_open, has_script >>
    /\ UNCHANGED << otherVars, heldVars, pipelineVars, childVars, pipeVars, fwVars, hfuVars,
                    scriptVars, uiVars >>

\* (a variant that leaves the file where it is)
unlink_Keeps(file) == file

\* unlink(binary): no file is at the path afterwards.
unlink(file) == "absent"

\* creat(binary, 0755) that succeeds: a new, empty file, or the file that
\* is at the path, cut to no bytes ("reused").
creat(file) == IF file = "absent" THEN "empty" ELSE "reused"

\* mzExtractZipEntryToFile that succeeds: the entry's bytes are in the file
\* fd stands for, the new one ("fresh") or the one that was reused.
Extracted(file) == IF file = "empty" THEN "fresh" ELSE "refilled"

\* unlink(binary); creat(binary, 0755): fd < 0 => return 1
CreateBinary ==
    /\ pc = "creat"
    /\ \E ok \in BOOLEAN :
          IF ok
          THEN /\ tmp_binary' = creat(unlink(tmp_binary))
               /\ pc' = "extract"
               /\ UNCHANGED << result, tub_exit >>
          ELSE /\ tmp_binary' = unlink(tmp_binary)
               /\ TubReturn("creat_failed", TMP_BINARY_FAILURE)
    /\ UNCHANGED << forks, status >>
    /\ UNCHANGED << otherVars, heldVars, pipelineVars, zipVars, childVars, pipeVars, fwVars,
                    hfuVars, scriptVars, uiVars >>

\* ExtractBinary with ok not looked at: the fork follows in either case.
ExtractBinary_Unchecked ==
    /\ pc = "extract"
    /\ \E ok \in BOOLEAN :
          IF ok
          THEN /\ tmp_binary' = Extracted(tmp_binary)
               /\ pc' = "fork"
               /\ UNCHANGED << result, tub_exit >>
          ELSE /\ UNCHANGED tmp_binary
               /\ pc' = "fork"
               /\ UNCHANGED << result, tub_exit >>
    /\ UNCHANGED << forks, status >>
    /\ UNCHANGED << otherVars, heldVars, pipelineVars, zipVars, childVars, pipeVars, fwVars,
                    hfuVars, scriptVars, uiVars >>

\* mzExtractZipEntryToFile(zip, binary_entry, fd): !ok => return 1
ExtractBinary ==
    /\ pc = "extract"
    /\ \E ok \in BOOLEAN :
          IF ok
          THEN /\ tmp_binary' = Extracted(tmp_binary)
               /\ pc' = "fork"
               /\ UNCHANGED << result, tub_exit >>
          ELSE /\ UNCHANGED tmp_binary
               /\ TubReturn("extract_failed", TMP_BINARY_FAILURE)
    /\ UNCHANGED << forks, status >>
    /\ UNCHANGED << otherVars, heldVars, pipelineVars, zipVars, childVars, pipeVars, fwVars,
                    hfuVars, scriptVars, uiVars >>

\* pipe(pipefd); fork(); the parent closes the write end and starts to
\* read.  The child is one of Scripts; a child whose execv fails writes
\* nothing and exits with a non-zero status.  When fork fails there is no
\* child and nothing holds the write end.
Fork ==
    /\ pc = "fork"
    /\ \/ /\ \E sc \in Scripts : script' = sc
          /\ child_pc' = "running"
          /\ forks' = forks + 1
       \/ /\ child_pc' = "none"
          /\ UNCHANGED << script, forks >>
    /\ fork_calls' = fork_calls + 1
    /\ pc' = "read"
    /\ UNCHANGED << child_w, child_off >>
    /\ UNCHANGED << result, tub_exit, tmp_binary, status >>
    /\ UNCHANGED << otherVars, loadedKeys, payloadVars, attempts, pipelineVars, zipVars, pipeVars, fwVars, hfuVars,
                    scriptVars, uiVars >>

\* ---- the child

\* One write() of the child: the bytes that fit go on the pipe; the call
\* blocks while the pipe is full and returns when all bytes are written.
ChildWrite ==
    /\ child_pc = "running"
    /\ child_w <= Len(script)
    /\ Len(pipe) < PipeCap
    /\ pc # "crashed"
    /\ LET text == ChildWrites[script[child_w]]
           left == Len(text) - child_off
           free == PipeCap - Len(pipe)
           n == IF left < free THEN left ELSE free
       IN  /\ pipe' = pipe \o SubSeq(text, child_off + 1, child_off + n)
           /\ IF n = left
              THEN child_w' = child_w + 1 /\ child_off' = 0
              ELSE child_off' = child_off + n /\ UNCHANGED child_w
    /\ UNCHANGED << script, child_pc, inbuf, chunks >>
    /\ UNCHANGED << otherVars, heldVars, pc, pipelineVars, zipVars, tubVars, fwVars, hfuVars,
                    scriptVars, uiVars >>

\* The child ends, which closes the write end of the pipe.
ChildExit ==
    /\ child_pc = "running"
    /\ child_w > Len(script)
    /\ pc # "crashed"
    /\ child_pc' = "exited"
    /\ UNCHANGED << script, child_w, child_off >>
    /\ UNCHANGED << otherVars, heldVars, pc, pipelineVars, zipVars, tubVars, pipeVars, fwVars,
                    hfuVars, scriptVars, uiVars >>

\* ---- the parent's read loop

\* No process holds the write end any more.
WriteEndClosed == child_pc # "running"

AtEof == pipe = << >> /\ WriteEndClosed

\* from_child reads what the pipe holds while fgets has no string to return.
FillBuffer ==
    /\ pc = "read"
    /\ fgets(inbuf, FALSE) = << >>
    /\ pipe # << >>
    /\ inbuf' = inbuf \o pipe
    /\ pipe' = << >>
    /\ UNCHANGED chunks
    /\ UNCHANGED << otherVars, heldVars, pc, pipelineVars, zipVars, tubVars, childVars, fwVars,
                    hfuVars, scriptVars, uiVars >>

\* The string the next fgets returns, << >> if it cannot return one now.
NextChunk == fgets(inbuf, AtEof)

\* strtof or strtol of a null pointer: the process is killed, or the call
\* returns some value.
Garbage == {0, 2 * ONE}

\* DoProgress handing the fraction to the display as it came.
DoProgress_Unscaled(rest) ==
    LET a == strtok(rest, {SP, NL})
        b == strtok(a.rest, {SP, NL})
    IN  IF a.tok = NULL \/ b.tok = NULL
        THEN pc' = "crashed" /\ UNCHANGED uiVars
        ELSE /\ pc' = "read"
             /\ ui_show_progress(strtof(a.tok), strtol(b.tok))

\* `progress <frac> <secs>`
DoProgress(rest) ==
    LET a == strtok(rest, {SP, NL})
        b == strtok(a.rest, {SP, NL})
    IN  IF a.tok = NULL \/ b.tok = NULL
        THEN \/ pc' = "crashed" /\ UNCHANGED uiVars
             \/ /\ pc' = "read"
                /\ \E fraction \in (IF a.tok = NULL THEN Garbage ELSE {strtof(a.tok)}),
                      seconds \in Garbage :
                      ui_show_progress(
                          (fraction * (ONE - VERIFICATION_PROGRESS_FRACTION)) \div ONE,
                          seconds)
        ELSE /\ pc' = "read"
             /\ ui_show_progress(
                    (strtof(a.tok) * (ONE - VERIFICATION_PROGRESS_FRACTION)) \div ONE,
                    strtol(b.tok))

\* `set_progress <frac>`
DoSetProgress(rest) ==
    LET a == strtok(rest, {SP, NL})
    IN  IF a.tok = NULL
        THEN \/ pc' = "crashed" /\ UNCHANGED uiVars
             \/ /\ pc' = "read"
                /\ \E fraction \in Garbage : ui_set_progress(fraction)
        ELSE /\ pc' = "read"
             /\ ui_set_progress(strtof(a.tok))

\* `ui_print <string>`: str = strtok(NULL, "\n"); ui_print(str), or
\* ui_print("\n") when there is none.
DoPrint(rest) ==
    LET str == strtok(rest, {NL})
    IN  IF str.tok # NULL THEN ui_print(str.tok) ELSE ui_print(<< NL >>)

\* `firmware <type> <filename>`: what << firmware_type, firmware_filename >>
\* is after the command, given what it was: a request is recorded when both
\* words are there and none was recorded before.
KeepFirst(held, rest) ==
    LET type == strtok(rest, {SP, NL})
        filename == strtok(type.rest, {SP, NL})
    IN  IF type.tok # NULL /\ filename.tok # NULL /\ held[1] = NULL
        THEN << type.tok, filename.tok >>
        ELSE held

DoFirmware(rest) ==
    LET kept == KeepFirst(<< firmware_type, firmware_filename >>, rest)
    IN  /\ firmware_type' = kept[1]
        /\ firmware_filename' = kept[2]

\* The request the loop holds after it has read all of `bytes`, given the
\* request it held before: the loop as a function of its input, for the
\* firmware command.
RECURSIVE LoopRequest(_, _)
LoopRequest(bytes, held) ==
    IF bytes = << >> THEN held
    ELSE LET buffer == fgets(bytes, TRUE)
             command == strtok(buffer, {SP, NL})
         IN  LoopRequest(Drop(bytes, Len(buffer)),
                         IF command.tok = W_firmware
                         THEN KeepFirst(held, command.rest)
                         ELSE held)

\* One turn of the loop: fgets returns a string, its command is handled.
HandleLine ==
    /\ pc = "read"
    /\ NextChunk # << >>
    /\ inbuf' = Drop(inbuf, Len(NextChunk))
    /\ chunks' = chunks + 1
    /\ UNCHANGED pipe
    /\ LET command == strtok(NextChunk, {SP, NL})
       IN  IF command.tok = NULL
           THEN UNCHANGED << pc, fwVars, uiVars >>
           ELSE IF command.tok = W_progress
           THEN DoProgress(command.rest) /\ UNCHANGED fwVars
           ELSE IF command.tok = W_set_progress
           THEN DoSetProgress(command.rest) /\ UNCHANGED fwVars
           ELSE IF command.tok = W_firmware
           THEN DoFirmware(command.rest) /\ UNCHANGED << pc, uiVars >>
           ELSE IF command.tok = W_ui_print
           THEN DoPrint(command.rest) /\ UNCHANGED << pc, fwVars >>
           ELSE UNCHANGED << pc, fwVars, uiVars >>
    /\ UNCHANGED << otherVars, heldVars, pipelineVars, zipVars, tubVars, childVars, hfuVars,
                    scriptVars >>

\* fgets returns NULL: the loop ends, from_child is closed.
EndOfStream ==
    /\ pc = "read"
    /\ AtEof
    /\ inbuf = << >>
    /\ pc' = "waitpid"
    /\ UNCHANGED << otherVars, heldVars, pipelineVars, zipVars, tubVars, childVars, pipeVars,
                    fwVars, hfuVars, scriptVars, uiVars >>

\* waitpid(pid, &status, 0) returns once the child has ended, with the
\* status it ended with; then the status is checked.  Without a child
\* (fork failed) waitpid fails and status is not initialised.
WaitChild ==
    /\ pc = "waitpid"
    /\ child_pc # "running"
    /\ \E st \in ExitStatuses :
          /\ status' = st
          /\ IF ~CleanExit(st)
             THEN TubReturn("child_failed", INSTALL_ERROR)
             ELSE IF firmware_type # NULL
             THEN pc' = "handle_firmware_update" /\ UNCHANGED << result, tub_exit >>
             ELSE TubReturn("success", INSTALL_SUCCESS)
    /\ UNCHANGED << tmp_binary, forks >>
    /\ UNCHANGED << otherVars, heldVars, pipelineVars, zipVars, childVars, pipeVars, fwVars,
                    hfuVars, scriptVars, uiVars >>

\* ------------------------------------------------- handle_firmware_update

\* The return statements of handle_firmware_update, for a target in the
\* package and for a target that is a file.
PackageExits == {"no_entry", "malloc_failed", "entry_read_failed",
                 "remember_failed", "ok"}

FileExits == {"stat_failed", "malloc_failed", "fopen_failed", "short_read",
              "remember_failed", "ok"}

\* The whole payload was read into data (the entry, or st_size bytes of the
\* file), so that remember_firmware_update was called.
PayloadRead(how) == how \in {"remember_failed", "ok"}

\* Remembered with the result of remember_firmware_update ignored.
Remembered_Unchecked(how) == PayloadRead(how)

\* remember_firmware_update returned 0.
Remembered(how) == how = "ok"

\* The largest payload, in bytes.
MaxPayload == 2

\* The bytes of the entry that are in the buffer when
\* mzReadZipEntry(zip, entry, data, data_size) returns ok.
mzReadZipEntry(ok, size) == IF ok THEN {size} ELSE 0..size

\* What fread(data, 1, data_size, f) may return.
fread(size) == 0..size

\* ShortRead with the test left out.
ShortRead_Never(n, size) == FALSE

\* fread(data, 1, data_size, f) != data_size
ShortRead(n, size) == n # size

\* data_size and the bytes read into data when handle_firmware_update, for
\* a target in the package (pkg) or a file, leaves by how.
Payload(pkg, how, size, got) ==
    IF how \in {"no_entry", "stat_failed"}
    THEN size = UNSET /\ got = UNSET
    ELSE /\ size \in 0..MaxPayload
         /\ IF how \in {"malloc_failed", "fopen_failed"}
            THEN got = UNSET
            ELSE IF pkg
            THEN got \in mzReadZipEntry(how # "entry_read_failed", size)
            ELSE /\ got \in fread(size)
                 /\ how = "short_read" <=> ShortRead(got, size)

\* handle_firmware_update(firmware_type, firmware_filename, zip), whose
\* return value try_update_binary returns.
HandleFirmwareUpdate ==
    /\ pc = "handle_firmware_update"
    /\ fw_calls' = fw_calls + 1
    /\ \E how \in (IF HasPackagePrefix(firmware_filename)
                   THEN PackageExits ELSE FileExits) :
          /\ \E size, got \in {UNSET} \cup (0..MaxPayload) :
                /\ Payload(HasPackagePrefix(firmware_filename), how, size, got)
                /\ data_size' = size
                /\ data_got' = got
          /\ fw_exit' = how
          /\ remember_calls' = remember_calls + (IF PayloadRead(how) THEN 1 ELSE 0)
          /\ TubReturn("firmware",
                       IF Remembered(how) THEN INSTALL_SUCCESS ELSE INSTALL_ERROR)
    /\ UNCHANGED << tmp_binary, forks, status >>
    /\ UNCHANGED << otherVars, loadedKeys, fork_calls, attempts, pipelineVars, zipVars, childVars,
                    pipeVars, fwVars, scriptVars, uiVars >>

\* -------------------------------------------------- handle_update_package

\* The return statements of handle_update_script and their values.
ScriptExits == {"read_failed", "parse_failed", "exec_failed", "ok"}

ScriptValue(how) == IF how = "ok" THEN INSTALL_SUCCESS ELSE INSTALL_ERROR

\* NeedsScript without its second test: every failure goes to the script.
NeedsScript_AnyFailure(r) == r # INSTALL_SUCCESS

\* (result != INSTALL_SUCCESS) && (result != INSTALL_ERROR)
NeedsScript(r) == r # INSTALL_SUCCESS /\ r # INSTALL_ERROR

\* install_package returns v after handle_update_package returned it and
\* the archive was closed.
CloseAndReturn(v) ==
    /\ zip_open' = FALSE
    /\ ret' = v
    /\ pc' = "done"

\* The rest of handle_update_package after try_update_binary returned, and
\* the end of install_package: a result that is neither INSTALL_SUCCESS nor
\* INSTALL_ERROR sends the package to the update-script.
Dispatch ==
    /\ pc = "dispatch"
    /\ IF NeedsScript(result)
       THEN /\ script_lookups' = script_lookups + 1
            /\ \E found \in BOOLEAN :
                  /\ has_script' = found
                  /\ IF ~found
                     THEN /\ CloseAndReturn(INSTALL_CORRUPT)
                          /\ UNCHANGED << script_runs, script_result >>
                     ELSE \/ \* register_package_root(zip, path) < 0
                             /\ CloseAndReturn(INSTALL_ERROR)
                             /\ UNCHANGED << script_runs, script_result >>
                          \/ \E how \in ScriptExits :
                                /\ script_runs' = script_runs + 1
                                /\ script_result' = ScriptValue(how)
                                /\ CloseAndReturn(ScriptValue(how))
       ELSE /\ CloseAndReturn(result)
            /\ UNCHANGED << has_script, scriptVars >>
    /\ UNCHANGED << has_binary, steps, failed >>
    /\ UNCHANGED << otherVars, heldVars, tubVars, childVars, pipeVars, fwVars, hfuVars, uiVars >>

\* ------------------------------------------------------------- behaviours

Next ==
    \/ Mount
    \/ Translate
    \/ LoadKeys
    \/ OpenArchive
    \/ Verify
    \/ FindBinary
    \/ CreateBinary
    \/ ExtractBinary
    \/ Fork
    \/ ChildWrite
    \/ ChildExit
    \/ FillBuffer
    \/ HandleLine
    \/ EndOfStream
    \/ WaitChild
    \/ HandleFirmwareUpdate
    \/ Dispatch

Spec == Init /\ [][Next]_vars

\* ------------------------------------------- one install after the other

\* The installs that may follow the first one.
MaxAttempts == 2

\* What an install leaves at the temporary path for the next one: nothing
\* in try_update_binary or after it removes the file.
Leftover(file) == IF file = "absent" THEN "absent" ELSE "stale"

\* How the install that is over went: the step that failed, the return
\* statement of try_update_binary, or "extracted" for an install that has
\* filled the temporary file (the child and the lines it writes do not
\* matter to the file and are left out).
Outcome ==
    IF pc = "fork" THEN "extracted"
    ELSE IF tub_exit # "" THEN tub_exit
    ELSE failed

\* install_package is called again (another package is chosen from the
\* menu): everything starts over, except for the file system.
NextAttempt ==
    /\ pc \in {"done", "fork"}
    /\ Len(attempts) < MaxAttempts
    /\ attempts' = Append(attempts, Outcome)
    /\ tmp_binary' = Leftover(tmp_binary)
    /\ pc' = "install_package"
    /\ steps' = << >>
    /\ failed' = ""
    /\ ret' = UNSET
    /\ zip_open' = FALSE
    /\ has_binary' = FALSE
    /\ has_script' = FALSE
    /\ result' = UNSET
    /\ tub_exit' = ""
    /\ script_lookups' = 0
    /\ script_runs' = 0
    /\ script_result' = UNSET
    /\ seg_size' = 0
    /\ seg_time' = 0
    /\ seg_pos' = 0
    /\ seg_count' = 0
    /\ ui_log' = << >>
    /\ loadedKeys' = "NULL"
    /\ UNCHANGED << forks, status, fork_calls, payloadVars >>
    /\ UNCHANGED << otherVars, childVars, pipeVars, fwVars, hfuVars >>

NextAttempts ==
    \/ Mount
    \/ Translate
    \/ LoadKeys
    \/ OpenArchive
    \/ Verify
    \/ FindBinary
    \/ CreateBinary
    \/ ExtractBinary
    \/ Dispatch
    \/ NextAttempt

SpecAttempts == Init /\ [][NextAttempts]_vars

\* ----------------------------------------------------------------- claims

\* Control is in handle_update_package or beyond it.
PastVerification ==
    pc \in {"handle_update_package", "creat", "extract", "fork", "read",
            "waitpid", "crashed", "handle_firmware_update", "dispatch"}

\* Something of the archive was looked up, extracted, run or interpreted.
ArchiveUsed ==
    \/ tub_exit # ""
    \/ has_binary
    \/ tmp_binary \in {"empty", "fresh"}
    \/ forks > 0
    \/ script_lookups > 0
    \/ script_runs > 0

\* The steps of the pipeline before the one named.
StepsBefore(name) ==
    SubSeq(PipelineSteps, 1, (CHOOSE i \in 1..Len(PipelineSteps) : PipelineSteps[i] = name) - 1)

\* C1: handle_update_package is reached, and anything of the archive is
\* looked up, extracted or run, only after mount, path translation, key
\* load, archive open and signature verification succeeded in this order in
\* the same call.
C1_DispatchOnlyAfterVerification ==
    (PastVerification \/ ArchiveUsed) => (steps = PipelineSteps /\ failed = "")

\* C1: a child runs the update-binary of a verified archive.
C1_Witness == pc = "read" /\ forks = 1 /\ steps = PipelineSteps

\* C2: when the mount, the translation, the key load, the archive open or
\* the verification fails, install_package returns INSTALL_CORRUPT and
\* performs none of the later steps.
C2_PipelineFailureIsCorrupt ==
    (pc = "done" /\ failed # "") =>
        /\ failed \in {PipelineSteps[i] : i \in 1..Len(PipelineSteps)}
        /\ ret = INSTALL_CORRUPT
        /\ steps = StepsBefore(failed)
        /\ ~ArchiveUsed
        /\ result = UNSET

\* C2: the archive was opened and its signature did not verify.
C2_Witness == pc = "done" /\ failed = "verify" /\ steps = StepsBefore("verify")

\* C3: the update-script is looked up and run only when try_update_binary
\* found no update-binary entry; after every other outcome of the binary
\* path the script is untouched and install_package returns that outcome:
\* INSTALL_ERROR when the temporary binary could not be created or extracted
\* or the child failed, INSTALL_SUCCESS on success, and what
\* handle_firmware_update returned when a firmware request was handled.
C3_ScriptOnlyWithoutBinary ==
    /\ (script_lookups > 0 \/ script_runs > 0) => tub_exit = "no_entry"
    /\ (pc = "done" /\ tub_exit \notin {"", "no_entry"}) =>
          /\ script_lookups = 0 /\ script_runs = 0
          /\ ret = result
          /\ ret \in {INSTALL_SUCCESS, INSTALL_ERROR}
          /\ tub_exit \in {"creat_failed", "extract_failed", "child_failed"} => ret = INSTALL_ERROR
          /\ tub_exit = "success" => ret = INSTALL_SUCCESS
          /\ tub_exit = "firmware" => (ret = INSTALL_SUCCESS <=> fw_exit = "ok")

\* C3: the temporary binary could not be extracted and the install is over.
C3_Witness == pc = "done" /\ tub_exit = "extract_failed" /\ script_lookups = 0

\* C4: a verified archive with neither update-binary nor update-script
\* makes install_package return INSTALL_CORRUPT; no child is forked and the
\* interpreter is not invoked.
C4_NeitherEntryIsCorrupt ==
    (pc = "done" /\ steps = PipelineSteps /\ ~has_binary /\ ~has_script) =>
        /\ tub_exit = "no_entry"
        /\ script_lookups = 1
        /\ ret = INSTALL_CORRUPT
        /\ forks = 0
        /\ script_runs = 0

\* C4: both lookups were made and both found nothing.
C4_Witness ==
    pc = "done" /\ tub_exit = "no_entry" /\ script_lookups = 1 /\ ~has_script

\* C5: when the child did not exit normally with status 0,
\* try_update_binary returns INSTALL_ERROR whatever lines it received, and
\* a recorded firmware request is not handed on: neither
\* handle_firmware_update nor remember_firmware_update is called.
C5_ChildFailureIsError ==
    (forks = 1 /\ status \in {"exit1", "signal"}) =>
        /\ tub_exit = "child_failed"
        /\ result = INSTALL_ERROR
        /\ fw_calls = 0
        /\ remember_calls = 0
        /\ pc = "done" => ret = INSTALL_ERROR

\* C5: the child recorded a firmware request and then exited with status 1.
C5_Witness == forks = 1 /\ status = "exit1" /\ firmware_type # NULL /\ pc = "done"

\* C6: when the child exited normally with status 0, try_update_binary
\* returns INSTALL_SUCCESS if no firmware request was recorded; if one was,
\* it returns INSTALL_SUCCESS exactly when the payload was read in full and
\* remember_firmware_update succeeded, and INSTALL_ERROR otherwise.
C6_CleanExitResult ==
    (forks = 1 /\ status = "exit0" /\ pc \in {"dispatch", "done"}) =>
        IF firmware_type = NULL
        THEN result = INSTALL_SUCCESS /\ fw_calls = 0
        ELSE /\ fw_calls = 1
             /\ result \in {INSTALL_SUCCESS, INSTALL_ERROR}
             /\ result = INSTALL_SUCCESS <=> fw_exit = "ok"
             /\ fw_exit \in {"remember_failed", "ok"} <=> remember_calls = 1

\* C6: the payload was read in full and could not be remembered.
C6_Witness ==
    forks = 1 /\ status = "exit0" /\ fw_exit = "remember_failed" /\ pc = "dispatch"

\* ---- the child's output as the protocol understands it: lines of words

\* The lines of a byte stream, each with its newline (the last may lack it).
RECURSIVE SplitLines(_)
SplitLines(bytes) ==
    IF bytes = << >> THEN << >>
    ELSE LET n == FirstIn(bytes, {NL})
         IN  << Take(bytes, n) >> \o SplitLines(Drop(bytes, n))

\* The words of a line: the maximal runs of characters other than blank
\* and newline.
RECURSIVE Words(_)
Words(line) ==
    LET b == FirstNotIn(line, {SP, NL})
        e == FirstIn(Drop(line, b - 1), {SP, NL})
    IN  IF b > Len(line) THEN << >>
        ELSE << SubSeq(line, b, b + e - 2) >> \o Words(Drop(line, b + e - 2))

Verbs == {W_progress, W_set_progress, W_firmware, W_ui_print}

\* A line whose verb is none of the protocol's, or that has no word at all.
Unrecognized(line) == Words(line) = << >> \/ Words(line)[1] \notin Verbs

\* A firmware line that carries both a type and a target.
IsRequest(line) == Len(Words(line)) >= 3 /\ Words(line)[1] = W_firmware

\* The type and target of the first such line of a stream.
FirstRequest(bytes) ==
    LET ls == SplitLines(bytes)
        at == {i \in 1..Len(ls) : IsRequest(ls[i])}
    IN  IF at = {} THEN << NULL, NULL >>
        ELSE LET i == CHOOSE i \in at : \A j \in at : i <= j
             IN  << Words(ls[i])[2], Words(ls[i])[3] >>

\* A stream without its unrecognized lines.
StripUnrecognized(bytes) ==
    LET ls == SplitLines(bytes)
    IN  Concat([i \in 1..Len(ls) |-> IF Unrecognized(ls[i]) THEN << >> ELSE ls[i]])

\* Everything the child writes before it exits.
Sent == Stream(script, Len(script))

\* The read loop is over (and the parent was not killed in it).
LoopOver == pc \in {"waitpid", "handle_firmware_update", "dispatch", "done"}

\* C7: the firmware request try_update_binary retains is that of the first
\* firmware line of the child's output that carries a type and a target,
\* whatever lines follow, and handle_firmware_update is called at most once.
C7_FirstRequestRetained ==
    /\ fw_calls <= 1
    /\ (forks = 1 /\ LoopOver) =>
          << firmware_type, firmware_filename >> = FirstRequest(Sent)

\* The parent sleeps in fgets (no string to return, nothing in the pipe, the
\* write end still open) or in waitpid (the child has not ended).
ParentBlocked ==
    \/ pc = "read" /\ NextChunk = << >> /\ pipe = << >> /\ ~WriteEndClosed
    \/ pc = "waitpid" /\ child_pc = "running"

\* The child is alive and not asleep in a write on a full pipe.
ChildCanRun ==
    child_pc = "running" /\ (child_w > Len(script) \/ Len(pipe) < PipeCap)

\* The parent was killed inside try_update_binary.
ParentKilled == pc = "crashed"

\* C8: waitpid is called only after the read loop saw the end of the
\* stream, and once the child is forked parent and child never come to a
\* stop before try_update_binary has returned.
C8_DrainedThenNeverStuck ==
    /\ pc = "waitpid" => (pipe = << >> /\ inbuf = << >> /\ WriteEndClosed)
    /\ ~(ParentBlocked /\ ~ChildCanRun)
    /\ ~ParentKilled

\* C9: lines with an unrecognized verb and empty lines do not stop the
\* loop (all the child's output is read) and leave the retained firmware
\* request as it would be had they not been sent.
C9_UnrecognizedLineIsInert ==
    (forks = 1 /\ LoopOver) =>
        /\ child_w > Len(script) /\ pipe = << >> /\ inbuf = << >>
        /\ << firmware_type, firmware_filename >>
              = LoopRequest(StripUnrecognized(Sent), << NULL, NULL >>)

\* ---- progress commands as the child means them

ProgressCmd(f, s) == [verb |-> "progress", f |-> f, s |-> s]

SetProgressCmd(f) == [verb |-> "set_progress", f |-> f, s |-> 0]

Render(cmd) ==
    IF cmd.verb = "progress" THEN ProgressLine(cmd.f, cmd.s) ELSE SetProgressLine(cmd.f)

CmdSet ==
    {ProgressCmd(f, s) : f \in {250, 500}, s \in {0, 5}}
        \cup {SetProgressCmd(f) : f \in {300, 700, ONE}}

CmdLists == UNION {[1..n -> CmdSet] : n \in 1..2}

\* The progress commands each write of ChildWrites consists of, << >> for a
\* write that is not a list of well-formed progress commands.
WriteMeaning ==
    [i \in 1..NumWrites |->
        LET fits == {cs \in CmdLists :
                        Concat([k \in 1..Len(cs) |-> Render(cs[k])]) = ChildWrites[i]}
        IN  IF fits = {} THEN << >> ELSE CHOOSE cs \in fits : TRUE]

ProgressOnly(sc) == \A i \in 1..Len(sc) : WriteMeaning[sc[i]] # << >>

\* The commands the parent has handled: each is one line, one fgets.
Handled(sc) == Take(Concat([i \in 1..Len(sc) |-> WriteMeaning[sc[i]]]), chunks)

\* Index of the last progress command of cs, 0 if there is none.
LastProgress(cs) ==
    LET at == {i \in 1..Len(cs) : cs[i].verb = "progress"}
    IN  IF at = {} THEN 0 ELSE CHOOSE i \in at : \A j \in at : j <= i

Increasing(cs) ==
    /\ \A i \in 1..Len(cs) : 0 <= cs[i].f /\ cs[i].f <= ONE
    /\ \A i, j \in 1..Len(cs) : i < j => cs[i].f < cs[j].f

\* C10: after `progress f s` and set_progress lines with increasing
\* fractions in [0,1], the display's segment has the size
\* f * (1 - VERIFICATION_PROGRESS_FRACTION) and is to fill over s seconds,
\* the position within it is the last fraction sent (so it increased with
\* every line), and the position reported never exceeds the segment's size.
C10_ProgressWithinSegment ==
    (forks = 1 /\ ProgressOnly(script) /\ pc # "fork") =>
        LET cs == Handled(script)
            p == LastProgress(cs)
            sets == Drop(cs, p)
        IN  (p > 0 /\ Increasing(sets)) =>
               /\ ONE * seg_size = cs[p].f * (ONE - VERIFICATION_PROGRESS_FRACTION)
               /\ seg_time = cs[p].s
               /\ seg_pos = (IF sets = << >> THEN 0 ELSE sets[Len(sets)].f)
               /\ seg_pos * seg_size <= ONE * seg_size

\* C10: `progress 0.5 0`, `set_progress 0.3`, `set_progress 1.0` were handled.
C10_Witness ==
    /\ forks = 1
    /\ script # << >> /\ ProgressOnly(script)
    /\ Handled(script) = << ProgressCmd(500, 0), SetProgressCmd(300), SetProgressCmd(ONE) >>
    /\ seg_pos = ONE

\* ================================================================ load_keys

\* How many records a key file of the model has at most.
MaxKeys == 2

\* RSANUMWORDS: the words of a modulus ("{64,0xc926ad21,{...},{...}}").
RSANUMWORDS == 64

\* ---------------------------------------------------------------- fscanf

WhiteSpace == {" ", "\n", "\t"}

HexDigits == << "0", "1", "2", "3", "4", "5", "6", "7", "8", "9",
                "a", "b", "c", "d", "e", "f" >>

DigitIn(c, base) == \E d \in 1..base : HexDigits[d] = c

DigitOf(c) == (CHOOSE d \in 1..16 : HexDigits[d] = c) - 1

\* A white-space directive, and the white space a conversion skips first.
RECURSIVE SkipSpace(_, _)
SkipSpace(t, p) ==
    IF p <= Len(t) /\ t[p] \in WhiteSpace THEN SkipSpace(t, p + 1) ELSE p

RECURSIVE ScanDigits(_, _, _, _)
ScanDigits(t, p, base, acc) ==
    IF p <= Len(t) /\ DigitIn(t[p], base)
    THEN ScanDigits(t, p + 1, base, acc * base + DigitOf(t[p]))
    ELSE [val |-> acc, pos |-> p]

\* %i: an optional sign, then a number in base 16 (after 0x), 8 (after 0) or 10.
ScanInt(t, p) ==
    LET a == SkipSpace(t, p)
        neg == a <= Len(t) /\ t[a] = "-"
        b == IF a <= Len(t) /\ t[a] \in {"-", "+"} THEN a + 1 ELSE a
        hex == /\ b + 2 <= Len(t)
               /\ t[b] = "0"
               /\ t[b + 1] = "x"
               /\ DigitIn(t[b + 2], 16)
        base == IF hex THEN 16 ELSE IF b <= Len(t) /\ t[b] = "0" THEN 8 ELSE 10
        c == IF hex THEN b + 2 ELSE b
        d == ScanDigits(t, c, base, 0)
    IN  IF d.pos = c
        THEN [ok |-> FALSE, val |-> 0, pos |-> a]
        ELSE [ok |-> TRUE, val |-> IF neg THEN 0 - d.val ELSE d.val, pos |-> d.pos]

\* fscanf(f, fmt, ...) on the text t from position p. fmt is the format as its
\* directives: " " (white space), "%i", or a character to be matched. The
\* result holds the values converted (fscanf returns their number) and the
\* position the stream is left at.
RECURSIVE fscanf(_, _, _, _)
fscanf(fmt, t, p, vals) ==
    IF fmt = << >> THEN [vals |-> vals, pos |-> p]
    ELSE LET d == Head(fmt) IN
         IF d = " " THEN fscanf(Tail(fmt), t, SkipSpace(t, p), vals)
         ELSE IF d = "%i"
              THEN LET r == ScanInt(t, p) IN
                   IF r.ok THEN fscanf(Tail(fmt), t, r.pos, Append(vals, r.val))
                   ELSE [vals |-> vals, pos |-> r.pos]
         ELSE IF p <= Len(t) /\ t[p] = d THEN fscanf(Tail(fmt), t, p + 1, vals)
         ELSE [vals |-> vals, pos |-> p]

\* " { %i , %i , { %i"
FMT_HEAD == << " ", "{", " ", "%i", " ", ",", " ", "%i", " ", ",", " ", "{",
               " ", "%i" >>

\* " , %i"
FMT_NEXT == << " ", ",", " ", "%i" >>

\* " } , { %i"
FMT_RR == << " ", "}", " ", ",", " ", "{", " ", "%i" >>

\* " } } "
FMT_TAIL == << " ", "}", " ", "}", " " >>

\* ----------------------------------------------------------- key files

\* A number as DumpPublicKey or an editor may write it.
RECURSIVE FmtBase(_, _)
FmtBase(n, base) ==
    IF n < base THEN << HexDigits[n + 1] >>
    ELSE FmtBase(n \div base, base) \o << HexDigits[(n % base) + 1] >>

FmtNum(v, how) ==
    IF how = "hex" THEN << "0", "x" >> \o FmtBase(v, 16)
    ELSE IF how = "oct" THEN << "0" >> \o FmtBase(v, 8)
    ELSE IF v < 0 THEN << "-" >> \o FmtBase(0 - v, 10)
    ELSE FmtBase(v, 10)

\* The records key files of the model are made of: the values of a record and
\* how its text is written (number bases, white space, a field that is no
\* number, closing braces left out).
KeyRecords ==
    << [len |-> RSANUMWORDS, n0inv |-> 5,
        n |-> [i \in 1..RSANUMWORDS |-> i],
        rr |-> [i \in 1..RSANUMWORDS |-> 100 + i],
        how |-> "dec", ws |-> << >>, bad |-> 0, close |-> TRUE],
       [len |-> RSANUMWORDS, n0inv |-> 51750,
        n |-> [i \in 1..RSANUMWORDS |-> 3 - 7 * i],
        rr |-> [i \in 1..RSANUMWORDS |-> 4096 * i],
        how |-> "mixed", ws |-> << " ", "\n" >>, bad |-> 0, close |-> TRUE],
       [len |-> RSANUMWORDS - 1, n0inv |-> 5,
        n |-> [i \in 1..(RSANUMWORDS - 1) |-> i],
        rr |-> [i \in 1..(RSANUMWORDS - 1) |-> 100 + i],
        how |-> "dec", ws |-> << >>, bad |-> 0, close |-> TRUE],
       [len |-> RSANUMWORDS, n0inv |-> 5,
        n |-> [i \in 1..RSANUMWORDS |-> i],
        rr |-> [i \in 1..RSANUMWORDS |-> 100 + i],
        how |-> "dec", ws |-> << >>, bad |-> 3, close |-> TRUE],
       [len |-> RSANUMWORDS, n0inv |-> 5,
        n |-> [i \in 1..RSANUMWORDS |-> i],
        rr |-> [i \in 1..RSANUMWORDS |-> 100 + i],
        how |-> "dec", ws |-> << >>, bad |-> 0, close |-> FALSE] >>

NumKeyRecords == Len(KeyRecords)

RECURSIVE NumList(_, _, _, _, _)
NumList(vs, i, how, ws, bad) ==
    IF i > Len(vs) THEN << >>
    ELSE (IF i = 1 THEN << >> ELSE ws \o << "," >> \o ws)
         \o (IF i = bad THEN << "z" >> ELSE FmtNum(vs[i], how))
         \o NumList(vs, i + 1, how, ws, bad)

\* The text of a record: {len,n0inv,{n...},{rr...}}
RecordText(r) ==
    LET mixed == r.how = "mixed" IN
    r.ws \o << "{" >> \o r.ws
    \o FmtNum(r.len, IF mixed THEN "oct" ELSE "dec") \o r.ws \o << "," >> \o r.ws
    \o FmtNum(r.n0inv, IF mixed THEN "hex" ELSE "dec") \o r.ws \o << "," >> \o r.ws
    \o << "{" >> \o r.ws \o NumList(r.n, 1, "dec", r.ws, 0) \o r.ws \o << "}" >>
    \o r.ws \o << "," >> \o r.ws
    \o << "{" >> \o r.ws
    \o NumList(r.rr, 1, IF mixed THEN "hex" ELSE "dec", r.ws, r.bad)
    \o (IF r.close THEN r.ws \o << "}" >> \o r.ws \o << "}" >> ELSE << >>)

\* What may follow the last record.
KeyTrailers == << << >>, << " ", "\n" >>, << "," >>, << "x" >>, << "\n", "," >> >>

\* The key files: up to MaxKeys records, commas between them, and a trailer.
KeyFiles ==
    [recs : UNION {[1..k -> 1..NumKeyRecords] : k \in 0..MaxKeys},
     trailer : 1..Len(KeyTrailers)]

RECURSIVE JoinRecords(_, _)
JoinRecords(recs, i) ==
    IF i > Len(recs) THEN << >>
    ELSE (IF i = 1 THEN << >> ELSE << "," >>)
         \o RecordText(KeyRecords[recs[i]]) \o JoinRecords(recs, i + 1)

FileText(file) == JoinRecords(file.recs, 1) \o KeyTrailers[file.trailer]

\* -------------------------------------------------------------- load_keys

\* The key load_keys is filling: out + (*numKeys - 1).
NoKey == [len |-> UNSET, n0inv |-> UNSET, n |-> << >>, rr |-> << >>]

\* exit: (a variant that leaves *numKeys as it is)
KeysExit_KeepsCount ==
    /\ key_pc' = "returned"
    /\ key_f' = IF key_f = "open" THEN "closed" ELSE key_f
    /\ out' = << >>
    /\ keys_ret' = "NULL"
    /\ UNCHANGED << numKeys, key_file, key_i >>

\* exit: close f if it is open, free out, *numKeys = 0, return NULL.
KeysExit ==
    /\ key_pc' = "returned"
    /\ key_f' = IF key_f = "open" THEN "closed" ELSE key_f
    /\ out' = << >>
    /\ numKeys' = 0
    /\ keys_ret' = "NULL"
    /\ UNCHANGED << key_file, key_i >>

\* out = NULL; *numKeys = 0; f = fopen(filename, "r")
KeysOpen ==
    /\ key_pc = "fopen"
    /\ \E opened \in BOOLEAN :
          IF opened
          THEN /\ key_f' = "open"
               /\ key_in' = FileText(key_file)
               /\ key_pc' = "head"
               /\ numKeys' = 0
               /\ out' = << >>
               /\ UNCHANGED << key_file, key_i, keys_ret >>
          ELSE /\ KeysExit
               /\ UNCHANGED key_in
    /\ UNCHANGED << installVars, ioVars, recVars, husVars, fsVars, menuVars >>

\* ++*numKeys; realloc; fscanf(" { %i , %i , { %i") != 3; len != RSANUMWORDS
KeysHead ==
    /\ key_pc = "head"
    /\ LET r == fscanf(FMT_HEAD, key_in, 1, << >>) IN
       /\ key_in' = Drop(key_in, r.pos - 1)
       /\ IF Len(r.vals) # 3 \/ r.vals[1] # RSANUMWORDS
          THEN KeysExit
          ELSE /\ numKeys' = numKeys + 1
               /\ out' = Append(out, [NoKey EXCEPT !.len = r.vals[1],
                                                   !.n0inv = r.vals[2],
                                                   !.n = << r.vals[3] >>])
               /\ key_i' = 1
               /\ key_pc' = "n"
               /\ UNCHANGED << key_file, key_f, keys_ret >>
    /\ UNCHANGED << installVars, ioVars, recVars, husVars, fsVars, menuVars >>

\* for (i = 1; i < key->len; ++i) fscanf(" , %i", &(key->n[i]))
KeysN ==
    /\ key_pc = "n"
    /\ LET r == fscanf(FMT_NEXT, key_in, 1, << >>) IN
       /\ key_in' = Drop(key_in, r.pos - 1)
       /\ IF Len(r.vals) # 1
          THEN KeysExit
          ELSE /\ out' = [out EXCEPT ![numKeys].n = Append(@, r.vals[1])]
               /\ key_i' = key_i + 1
               /\ key_pc' = IF key_i + 1 < out[numKeys].len THEN "n" ELSE "rr_head"
               /\ UNCHANGED << key_file, key_f, numKeys, keys_ret >>
    /\ UNCHANGED << installVars, ioVars, recVars, husVars, fsVars, menuVars >>

\* fscanf(" } , { %i", &(key->rr[0]))
KeysRRHead ==
    /\ key_pc = "rr_head"
    /\ LET r == fscanf(FMT_RR, key_in, 1, << >>) IN
       /\ key_in' = Drop(key_in, r.pos - 1)
       /\ IF Len(r.vals) # 1
          THEN KeysExit
          ELSE /\ out' = [out EXCEPT ![numKeys].rr = << r.vals[1] >>]
               /\ key_i' = 1
               /\ key_pc' = "rr"
               /\ UNCHANGED << key_file, key_f, numKeys, keys_ret >>
    /\ UNCHANGED << installVars, ioVars, recVars, husVars, fsVars, menuVars >>

\* for (i = 1; i < key->len; ++i) fscanf(" , %i", &(key->rr[i]))
KeysRR ==
    /\ key_pc = "rr"
    /\ LET r == fscanf(FMT_NEXT, key_in, 1, << >>) IN
       /\ key_in' = Drop(key_in, r.pos - 1)
       /\ IF Len(r.vals) # 1
          THEN KeysExit
          ELSE /\ out' = [out EXCEPT ![numKeys].rr = Append(@, r.vals[1])]
               /\ key_i' = key_i + 1
               /\ key_pc' = IF key_i + 1 < out[numKeys].len THEN "rr" ELSE "sep"
               /\ UNCHANGED << key_file, key_f, numKeys, keys_ret >>
    /\ UNCHANGED << installVars, ioVars, recVars, husVars, fsVars, menuVars >>

\* (a variant that takes a comma for the end of the file)
KeysSep_StopsAtComma ==
    /\ key_pc = "sep"
    /\ LET r == fscanf(FMT_TAIL, key_in, 1, << >>)
           at == r.pos
       IN  IF at > Len(key_in) \/ key_in[at] = ","
           THEN /\ key_in' = << >>
                /\ key_f' = "closed"
                /\ key_pc' = "returned"
                /\ keys_ret' = "out"
                /\ UNCHANGED << key_file, key_i, numKeys, out >>
           ELSE /\ key_in' = Drop(key_in, at)
                /\ KeysExit
    /\ UNCHANGED << installVars, ioVars, recVars, husVars, fsVars, menuVars >>

\* fscanf(" } } "), its result not looked at; then switch (fgetc(f)).
KeysSep ==
    /\ key_pc = "sep"
    /\ LET r == fscanf(FMT_TAIL, key_in, 1, << >>)
           at == r.pos
       IN  IF at > Len(key_in)
           THEN /\ key_in' = << >>
                /\ key_f' = "closed"
                /\ key_pc' = "returned"
                /\ keys_ret' = "out"
                /\ UNCHANGED << key_file, key_i, numKeys, out >>
           ELSE /\ key_in' = Drop(key_in, at)
                /\ IF key_in[at] = ","
                   THEN /\ key_pc' = "head"
                        /\ UNCHANGED << key_file, key_f, key_i, numKeys, out,
                                        keys_ret >>
                   ELSE KeysExit
    /\ UNCHANGED << installVars, ioVars, recVars, husVars, fsVars, menuVars >>

InitKeys ==
    /\ InitInstall
    /\ tmp_binary = "absent"
    /\ key_file \in KeyFiles
    /\ key_in = << >>
    /\ key_f = "NULL"
    /\ key_pc = "fopen"
    /\ key_i = 0
    /\ numKeys = UNSET
    /\ out = << >>
    /\ keys_ret = ""
    /\ IoIdle
    /\ RecoveryIdle
    /\ ScriptIdle
    /\ StepsIdle
    /\ MenusIdle

NextKeys ==
    \/ KeysOpen
    \/ KeysHead
    \/ KeysN
    \/ KeysRRHead
    \/ KeysRR
    \/ KeysSep

SpecKeys == InitKeys /\ [][NextKeys]_vars

\* ------------------------------------------------------ claims: load_keys

\* The key a record stands for.
KeyOf(r) == [len |-> r.len, n0inv |-> r.n0inv, n |-> r.n, rr |-> r.rr]

WellFormedRecord(r) == r.len = RSANUMWORDS /\ r.bad = 0 /\ r.close

BlankTrailer(tr) == \A i \in 1..Len(tr) : tr[i] \in WhiteSpace

\* N >= 1 well-formed records, commas between them, none after the last.
ValidKeyFile(file) ==
    /\ Len(file.recs) >= 1
    /\ \A i \in 1..Len(file.recs) : WellFormedRecord(KeyRecords[file.recs[i]])
    /\ BlankTrailer(KeyTrailers[file.trailer])

\* C11: for a key file of N >= 1 well-formed records separated by commas, with
\* no comma after the last, load_keys returns N keys, sets *numKeys to N, and
\* key i holds the len, n0inv, n[] and rr[] of record i, in file order.
C11_KeysInFileOrder ==
    (key_pc = "returned" /\ key_f # "NULL" /\ ValidKeyFile(key_file)) =>
        /\ numKeys = Len(key_file.recs)
        /\ keys_ret = "out"
        /\ out = [i \in 1..Len(key_file.recs) |->
                          KeyOf(KeyRecords[key_file.recs[i]])]

C11_Witness ==
    /\ key_pc = "returned"
    /\ key_file = [recs |-> << 2, 1 >>, trailer |-> 2]
    /\ numKeys = 2
    /\ keys_ret = "out"

\* A file the parse has to refuse: empty, a field that is no number, a len
\* other than RSANUMWORDS, or something other than white space after the last
\* record (a comma, another character).
BadKeyFile(file) ==
    \/ file.recs = << >>
    \/ \E i \in 1..Len(file.recs) :
          \/ KeyRecords[file.recs[i]].bad # 0
          \/ KeyRecords[file.recs[i]].len # RSANUMWORDS
    \/ ~BlankTrailer(KeyTrailers[file.trailer])

\* C12: load_keys is all-or-nothing: a file that cannot be opened, is empty,
\* has an unparsable field, a wrong len, a stray character after a record or
\* a comma after the last record gives NULL with *numKeys = 0, however many
\* records before parsed; and the result is NULL exactly when *numKeys is 0.
C12_AllOrNothing ==
    key_pc = "returned" =>
        /\ keys_ret = "NULL" <=> numKeys = 0
        /\ (key_f = "NULL" \/ BadKeyFile(key_file)) =>
               (keys_ret = "NULL" /\ numKeys = 0 /\ out = << >>)

C12_Witness ==
    /\ key_pc = "returned"
    /\ key_f = "closed"
    /\ key_file.recs = << 1, 4 >>
    /\ keys_ret = "NULL"
    /\ numKeys = 0

\* ============================================== ensure_read, ensure_write

\* The largest size the model calls them with.
MaxIoSize == 5

\* What read(fd, data + n, size - n) or write(...) may return: an error, no
\* byte, or some of the bytes asked for.
TransferResults(want) == {0 - 1, 0} \cup (1..want)

\* return (n > 0) ? 0 : -1 (a variant)
EnsureResult_AnyProgress(n, size) == IF n > 0 THEN 0 ELSE 0 - 1

\* return (n == size) ? 0 : -1
EnsureResult(n, size) == IF n = size THEN 0 ELSE 0 - 1

\* (a variant that asks for the whole size every time)
Request_Whole(n, size) == size

\* The count passed to read() or write(): size - n
Request(n, size) == size - n

\* while (n < size) { tmp = ...; if (tmp <= 0) break; n += tmp; } return ...
EnsureLoop ==
    /\ io_pc = "loop"
    /\ IF io_n < io_size
       THEN \E tmp \in TransferResults(Request(io_n, io_size)) :
               /\ io_calls' = Append(io_calls, tmp)
               /\ io_asked' = Append(io_asked, Request(io_n, io_size))
               /\ IF tmp <= 0
                  THEN /\ io_pc' = "returned"
                       /\ io_ret' = EnsureResult(io_n, io_size)
                       /\ UNCHANGED io_n
                  ELSE /\ io_n' = io_n + tmp
                       /\ UNCHANGED << io_pc, io_ret >>
       ELSE /\ io_pc' = "returned"
            /\ io_ret' = EnsureResult(io_n, io_size)
            /\ UNCHANGED << io_n, io_calls, io_asked >>
    /\ UNCHANGED << io_op, io_size >>
    /\ UNCHANGED << installVars, keyVars, recVars, husVars, fsVars, menuVars >>

ensure_read == io_op = "ensure_read" /\ EnsureLoop

ensure_write == io_op = "ensure_write" /\ EnsureLoop

InitIo ==
    /\ InitInstall
    /\ tmp_binary = "absent"
    /\ KeysIdle
    /\ io_op \in {"ensure_read", "ensure_write"}
    /\ io_size \in (0 - 1)..MaxIoSize
    /\ io_n = 0
    /\ io_pc = "loop"
    /\ io_ret = UNSET
    /\ io_calls = << >>
    /\ io_asked = << >>
    /\ RecoveryIdle
    /\ ScriptIdle
    /\ StepsIdle
    /\ MenusIdle

NextIo ==
    \/ ensure_read
    \/ ensure_write

SpecIo == InitIo /\ [][NextIo]_vars

\* The same, with every read() or write() call returning and the loop
\* going on after it.
SpecIoFair == SpecIo /\ WF_vars(NextIo)

\* --------------------------------- claims: ensure_read and ensure_write

\* The bytes the underlying calls moved: the sum of their positive results.
RECURSIVE Moved(_)
Moved(calls) ==
    IF calls = << >> THEN 0
    ELSE (IF Head(calls) > 0 THEN Head(calls) ELSE 0) + Moved(Tail(calls))

\* The transfer ended in a zero or negative result before size bytes moved.
EndedShort ==
    /\ io_calls # << >>
    /\ io_calls[Len(io_calls)] <= 0
    /\ Moved(io_calls) < io_size

\* C13: ensure_read and ensure_write return 0 exactly when the byte counts
\* returned by the underlying calls add up to the size asked for; a sequence
\* of partial transfers ending in a zero or negative result before that gives
\* -1: a short transfer is never reported as success.
C13_FullTransferOrFailure ==
    io_pc = "returned" =>
        /\ io_ret \in {0, 0 - 1}
        /\ io_ret = 0 <=> Moved(io_calls) = io_size
        /\ EndedShort => io_ret = 0 - 1

C13_Witness ==
    /\ io_pc = "returned"
    /\ io_op = "ensure_write"
    /\ io_size = 4
    /\ io_calls = << 1, 2, 0 >>
    /\ io_ret = 0 - 1

\* ================================================================= recovery

\* How often recovery is started at most, and how many menu selections
\* prompt_and_wait takes in one run at most.
MaxBoots == 2
MaxMenus == 1

\* How many lines are appended to the temporary log in one run at most.
MaxAppends == 1

MAX_ARG_LENGTH == 4096
MAX_ARGS == 100

\* sizeof(boot.recovery)
RECOVERY_SIZE == 1024

\* finish_recovery's char buf[4096]
LOG_BUF_SIZE == 4096

W_recovery == << "r", "e", "c", "o", "v", "e", "r", "y" >>
OPT_send_intent == << "s", "e", "n", "d", "_", "i", "n", "t", "e", "n", "t" >>
OPT_update_package == << "u", "p", "d", "a", "t", "e", "_", "p", "a", "c", "k", "a", "g", "e" >>
OPT_wipe_data == << "w", "i", "p", "e", "_", "d", "a", "t", "a" >>
OPT_wipe_cache == << "w", "i", "p", "e", "_", "c", "a", "c", "h", "e" >>
W_dashes == << "-", "-" >>
W_package == << "C", "A", "C", "H", "E", ":", "u", ".", "z", "i", "p" >>
W_ok == << "o", "k" >>

A_wipe_data == W_dashes \o OPT_wipe_data
A_wipe_cache == W_dashes \o OPT_wipe_cache
A_update_package == W_dashes \o OPT_update_package \o << "=" >> \o W_package
A_send_intent == W_dashes \o OPT_send_intent \o << "=" >> \o W_ok

\* An argument that alone is as long as the control block's recovery field.
A_long == W_dashes \o OPT_send_intent \o << "=" >> \o [i \in 1..RECOVERY_SIZE |-> "x"]

IsPrefix(a, b) == Len(a) <= Len(b) /\ Take(b, Len(a)) = a

\* strtok(text, D), then strtok(NULL, D) until it returns NULL: the tokens.
RECURSIVE Tokens(_, _)
Tokens(text, D) ==
    LET t == strtok(text, D) IN
    IF t.tok = NULL THEN << >> ELSE << t.tok >> \o Tokens(t.rest, D)

\* strlcpy(dst, "recovery\n", size), then strlcat(dst, arg, size) and
\* strlcat(dst, "\n", size) for every argument: dst keeps size - 1 bytes.
RECURSIVE ArgLines(_)
ArgLines(args) ==
    IF args = << >> THEN << >>
    ELSE Head(args) \o << NL >> \o ArgLines(Tail(args))

\* boot.recovery as get_args writes it: what fits of the marker line and
\* the argument lines.
RecoveryField(args) ==
    Take(W_recovery \o << NL >> \o ArgLines(args), RECOVERY_SIZE - 1)

\* The arguments the control block supplies: the lines after a first line
\* "recovery", MAX_ARGS - 1 of them at most; none without that first line.
BootArgs(boot) ==
    LET lines == Tokens(Take(boot.recovery, RECOVERY_SIZE - 1), {NL}) IN
    IF lines # << >> /\ Head(lines) = W_recovery
    THEN Take(Tail(lines), MAX_ARGS - 1)
    ELSE << >>

\* fgets(buf, sizeof(buf), fp) on a file read to its end.
ReadChunk(text, size) ==
    LET n == FirstIn(text, {NL}) IN
    IF n <= Len(text) /\ n <= size - 1 THEN Take(text, n) ELSE Take(text, size - 1)

\* The command file's arguments: for each fgets, strdup(strtok(buf, "\r\n")).
\* crash tells that strtok returned NULL (a line with nothing but its end) and
\* strdup was given it.
RECURSIVE FileArgs(_, _)
FileArgs(text, argc) ==
    IF text = << >> \/ argc >= MAX_ARGS THEN [args |-> << >>, crash |-> FALSE]
    ELSE LET buf == ReadChunk(text, MAX_ARG_LENGTH)
             t == strtok(buf, {"\r", NL})
         IN  IF t.tok = NULL THEN [args |-> << >>, crash |-> TRUE]
             ELSE LET more == FileArgs(Drop(text, Len(buf)), argc + 1) IN
                  [args |-> << t.tok >> \o more.args, crash |-> more.crash]

\* ---------------------------------------------------------- getopt_long

OPTIONS == << OPT_send_intent, OPT_update_package, OPT_wipe_data, OPT_wipe_cache >>

\* The option a name stands for (its index in OPTIONS): the one it equals,
\* or the only one it begins; 0 when there is none or several.
LongOption(name) ==
    LET exact == {k \in 1..Len(OPTIONS) : OPTIONS[k] = name}
        begun == {k \in 1..Len(OPTIONS) : IsPrefix(name, OPTIONS[k])}
    IN  IF exact # {} THEN CHOOSE k \in exact : TRUE
        ELSE IF Cardinality(begun) = 1 THEN CHOOSE k \in begun : TRUE
        ELSE 0

\* main's while ((arg = getopt_long(...)) != -1) switch (arg): the options
\* after the arguments from index i on.
RECURSIVE ParseArgs(_, _, _)
ParseArgs(args, i, o) ==
    IF i > Len(args) THEN o
    ELSE LET a == args[i] IN
         IF a = W_dashes THEN o
         ELSE IF ~IsPrefix(W_dashes, a) THEN ParseArgs(args, i + 1, o)
         ELSE LET body == Drop(a, 2)
                  eq == FirstIn(body, {"="})
                  given == eq <= Len(body)
                  k == LongOption(Take(body, eq - 1))
              IN  IF k \in {1, 2}
                  THEN IF given \/ i < Len(args)
                       THEN LET optarg == IF given THEN Drop(body, eq) ELSE args[i + 1]
                                next == IF given THEN i + 1 ELSE i + 2
                            IN  ParseArgs(args, next,
                                    IF k = 1 THEN [o EXCEPT !.send_intent = optarg]
                                    ELSE [o EXCEPT !.update_package = optarg])
                       ELSE ParseArgs(args, i + 1, o)
                  ELSE IF k = 3 /\ ~given
                  THEN ParseArgs(args, i + 1,
                                 [o EXCEPT !.wipe_data = 1, !.wipe_cache = 1])
                  ELSE IF k = 4 /\ ~given
                  THEN ParseArgs(args, i + 1, [o EXCEPT !.wipe_cache = 1])
                  ELSE ParseArgs(args, i + 1, o)

\* ------------------------------------------------------------- get_args

\* get_args: read the control block; without invocation arguments take the
\* control block's, without those the command file's; write the arguments
\* back to the control block with the command "boot-recovery".
get_args ==
    /\ rpc = "main"
    /\ \E mounted \in BOOLEAN :
          LET boot == bcb
              argc == Len(args_in) + 1
              first == IF argc <= 1 THEN BootArgs(boot) ELSE args_in
              opened == Len(first) + 1 <= 1 /\ mounted /\ cmd_file # NoFile
              file == IF opened THEN FileArgs(cmd_file, 1)
                      ELSE [args |-> << >>, crash |-> FALSE]
              args == IF opened THEN file.args ELSE first
          IN  IF file.crash
              THEN /\ rpc' = "crashed"
                   /\ UNCHANGED << argv, bcb, persisted, resolved, fr_calls >>
              ELSE /\ rpc' = "options"
                   /\ argv' = args
                   /\ bcb' = [command |-> "boot-recovery",
                              recovery |-> RecoveryField(args)]
                   /\ persisted' = bcb'
                   /\ resolved' = Append(resolved, args)
                   /\ fr_calls' = 0
    /\ UNCHANGED << boots, args_in, opts, rstatus, todo, busy, caller, menus,
                    fw_pending, cmd_file, intent, tmplog, tmplog_offset,
                    appends, log, started, main_calls, fr_how, copied >>
    /\ UNCHANGED << installVars, keyVars, ioVars, husVars, fsVars, menuVars >>

\* ----------------------------------------------------------------- main

\* (a variant that leaves CACHE: alone)
WipeDataCalls_DataOnly(wipe_cache) ==
    << "device_wipe_data", "erase DATA:" >>

\* The destructive calls of wipe_data in main and of wipe_data() in the menu.
WipeDataCalls(wipe_cache) ==
    << "device_wipe_data", "erase DATA:" >>
    \o (IF wipe_cache = 1 THEN << "erase CACHE:" >> ELSE << >>)

\* main: the getopt_long loop, then the command the options select.
SelectCommand ==
    /\ rpc = "options"
    /\ LET o == ParseArgs(argv, 1, NoOptions) IN
       /\ opts' = o
       /\ todo' = IF o.update_package # NULL THEN << "install_package" >>
                  ELSE IF o.wipe_data = 1 THEN WipeDataCalls(o.wipe_cache)
                  ELSE IF o.wipe_cache = 1 THEN << "erase CACHE:" >>
                  ELSE << >>
       /\ rstatus' = IF o.update_package = NULL /\ o.wipe_data = 0
                        /\ o.wipe_cache = 0
                     THEN INSTALL_ERROR ELSE INSTALL_SUCCESS
    /\ started' = Append(started, [args |-> argv, calls |-> todo'])
    /\ main_calls' = << >>
    /\ caller' = "main"
    /\ rpc' = "running"
    /\ UNCHANGED << boots, args_in, argv, busy, menus, fw_pending, bcb, cmd_file,
                    intent, tmplog, tmplog_offset, appends, log, persisted,
                    resolved, fr_calls, fr_how, copied >>
    /\ UNCHANGED << installVars, keyVars, ioVars, husVars, fsVars, menuVars >>

\* (a variant that zeroes the control block when the call is made)
StartCall_Clearing ==
    /\ rpc = "running"
    /\ busy = ""
    /\ todo # << >>
    /\ busy' = Head(todo)
    /\ todo' = Tail(todo)
    /\ bcb' = NoMessage
    /\ UNCHANGED << rpc, boots, args_in, argv, opts, rstatus, caller, menus,
                    fw_pending, cmd_file, intent, tmplog, tmplog_offset,
                    appends, log, persisted, resolved, started, main_calls, fr_calls, fr_how,
                    copied >>
    /\ UNCHANGED << installVars, keyVars, ioVars, husVars, fsVars, menuVars >>

\* install_package, device_wipe_data or erase_root is called.
StartCall ==
    /\ rpc = "running"
    /\ busy = ""
    /\ todo # << >>
    /\ busy' = Head(todo)
    /\ todo' = Tail(todo)
    /\ UNCHANGED << rpc, boots, args_in, argv, opts, rstatus, caller, menus,
                    fw_pending, bcb, cmd_file, intent, tmplog, tmplog_offset,
                    appends, log, persisted, resolved, started, main_calls, fr_calls, fr_how,
                    copied >>
    /\ UNCHANGED << installVars, keyVars, ioVars, husVars, fsVars, menuVars >>

\* The call returns. install_package may have remembered a firmware update;
\* device_wipe_data (recovery_ui.c) returns 0;
\* erase_root("CACHE:") formats the partition the command, intent and log
\* files are on. Only main looks at what the call returned.
EndCall ==
    /\ busy # ""
    /\ \E st \in {INSTALL_SUCCESS, INSTALL_ERROR, INSTALL_CORRUPT}, fw \in BOOLEAN :
          /\ busy # "install_package" => (st # INSTALL_CORRUPT /\ ~fw)
          /\ busy = "device_wipe_data" => st = INSTALL_SUCCESS
          /\ fw => st = INSTALL_SUCCESS
          /\ rstatus' = IF caller # "main" THEN rstatus
                        ELSE IF busy = "install_package" THEN st
                        ELSE IF st # INSTALL_SUCCESS THEN INSTALL_ERROR
                        ELSE rstatus
          /\ fw_pending' = (fw_pending \/ fw)
          /\ main_calls' = IF caller = "main"
                           THEN Append(main_calls, [call |-> busy, st |-> st])
                           ELSE main_calls
          /\ IF busy = "erase CACHE:" /\ st = INSTALL_SUCCESS
             THEN cmd_file' = NoFile /\ intent' = NoFile /\ log' = NoFile
             ELSE UNCHANGED << cmd_file, intent, log >>
    /\ busy' = ""
    /\ UNCHANGED << rpc, boots, args_in, argv, opts, todo, caller, menus, bcb,
                    tmplog, tmplog_offset, appends, persisted, resolved,
                    started, fr_calls, fr_how, copied >>
    /\ UNCHANGED << installVars, keyVars, ioVars, husVars, fsVars, menuVars >>

\* (a variant that looks at the text display alone)
NeedsPrompt_VisibleOnly(st, visible) == visible

\* status != INSTALL_SUCCESS || ui_text_visible()
NeedsPrompt(st, visible) == st # INSTALL_SUCCESS \/ visible

\* The command is through. main: prompt_and_wait if it failed or the text is
\* visible. Menu: a wipe returns from prompt_and_wait if the text is not
\* visible; otherwise the loop goes on.
CommandDone ==
    /\ rpc = "running"
    /\ busy = ""
    /\ todo = << >>
    /\ \E visible \in BOOLEAN :
          rpc' = IF caller = "main"
                 THEN IF NeedsPrompt(rstatus, visible)
                      THEN "prompt" ELSE "firmware"
                 ELSE IF caller = "menu_wipe" /\ ~visible
                      THEN "firmware" ELSE "prompt"
    /\ UNCHANGED << boots, args_in, argv, opts, rstatus, todo, busy, caller,
                    menus, fw_pending, bcb, cmd_file, intent, tmplog,
                    tmplog_offset, appends, log, persisted, resolved, started, main_calls,
                    fr_calls, fr_how, copied >>
    /\ UNCHANGED << installVars, keyVars, ioVars, husVars, fsVars, menuVars >>

\* ------------------------------------------------------- finish_recovery

\* while (fgets(buf, sizeof(buf), tmplog)) fputs(buf, log)
RECURSIVE CopyLoop(_)
CopyLoop(bytes) ==
    IF bytes = << >> THEN << >>
    ELSE LET buf == ReadChunk(bytes, LOG_BUF_SIZE) IN
         buf \o CopyLoop(Drop(bytes, Len(buf)))

\* (a variant that does not record the offset)
NextOffset_Unchanged(offset, end) == offset

\* tmplog_offset = ftell(tmplog), the stream being at its end.
NextOffset(offset, end) == end

\* How a finish_recovery call may go: the intent file opened, the log file
\* opened, the temporary log opened, and the command file: its file system
\* not mounted, unlink failed, or unlink done (ENOENT included).
FinishOutcomes ==
    [intent : BOOLEAN, log : BOOLEAN, tmp : BOOLEAN,
     unlink : {"unmounted", "failed", "done"}]

\* (a variant that leaves the control block as it is)
ClearedMessage_Kept(boot) == boot

\* memset(&boot, 0, sizeof(boot)); set_bootloader_message(&boot)
ClearedMessage(boot) == NoMessage

finish_recovery ==
    /\ rpc \in {"prompt", "finish"}
    /\ \E how \in FinishOutcomes :
          LET send_intent == IF rpc = "finish" THEN opts.send_intent ELSE NULL
              fresh == CopyLoop(Drop(tmplog, tmplog_offset))
              copy == how.log /\ how.tmp
          IN  /\ send_intent = NULL => how.intent
              /\ ~how.log => how.tmp
              /\ cmd_file = NoFile => how.unlink # "failed"
              /\ intent' = IF send_intent # NULL /\ how.intent
                           THEN send_intent ELSE intent
              /\ log' = IF ~how.log THEN log
                        ELSE (IF log = NoFile THEN << >> ELSE log)
                             \o (IF how.tmp THEN fresh ELSE << >>)
              /\ tmplog_offset' = IF copy THEN NextOffset(tmplog_offset, Len(tmplog))
                                  ELSE tmplog_offset
              /\ copied' = IF copy THEN copied \o fresh ELSE copied
              /\ cmd_file' = IF how.unlink = "done" THEN NoFile ELSE cmd_file
              /\ fr_how' = how.unlink
    /\ bcb' = ClearedMessage(bcb)
    /\ fr_calls' = fr_calls + 1
    /\ rpc' = IF rpc = "prompt" THEN "menu" ELSE "reboot"
    /\ UNCHANGED << boots, args_in, argv, opts, rstatus, todo, busy, caller,
                    menus, fw_pending, tmplog, appends, persisted, resolved,
                    started, main_calls >>
    /\ UNCHANGED << installVars, keyVars, ioVars, husVars, fsVars, menuVars >>

\* ------------------------------------------------------- prompt_and_wait

MenuItems == {"ITEM_REBOOT", "ITEM_WIPE_DATA", "ITEM_WIPE_CACHE",
              "ITEM_APPLY_SDCARD", "ITEM_OTHER"}

\* (a variant that persists the package as an argument)
SdcardMessage_WithPackage ==
    [command |-> "boot-recovery", recovery |-> RecoveryField(<< A_update_package >>)]

\* set_sdcard_update_bootloader_message
SdcardMessage == [command |-> "boot-recovery", recovery |-> RecoveryField(<< >>)]

\* get_menu_selection and the switch on the item. ITEM_OTHER stands for the
\* items that neither install nor erase (USB storage, splash, partition).
prompt_and_wait ==
    /\ rpc = "menu"
    /\ \E item \in MenuItems, confirmed \in BOOLEAN :
          /\ menus >= MaxMenus => item = "ITEM_REBOOT"
          /\ item # "ITEM_WIPE_DATA" => confirmed
          /\ menus' = menus + 1
          /\ rpc' = IF item = "ITEM_REBOOT" THEN "firmware"
                    ELSE IF item = "ITEM_OTHER" THEN "prompt"
                    ELSE "running"
          /\ todo' = IF item = "ITEM_WIPE_DATA" /\ confirmed THEN WipeDataCalls(1)
                     ELSE IF item = "ITEM_WIPE_CACHE" THEN << "erase CACHE:" >>
                     ELSE IF item = "ITEM_APPLY_SDCARD" THEN << "install_package" >>
                     ELSE << >>
          /\ caller' = IF item \in {"ITEM_WIPE_DATA", "ITEM_WIPE_CACHE"}
                       THEN "menu_wipe"
                       ELSE IF item = "ITEM_APPLY_SDCARD" THEN "menu_install"
                       ELSE caller
          /\ bcb' = IF item = "ITEM_APPLY_SDCARD" THEN SdcardMessage ELSE bcb
    /\ UNCHANGED << boots, args_in, argv, opts, rstatus, busy, fw_pending,
                    cmd_file, intent, tmplog, tmplog_offset, appends, log,
                    persisted, resolved, started, main_calls, fr_calls, fr_how, copied >>
    /\ UNCHANGED << installVars, keyVars, ioVars, husVars, fsVars, menuVars >>

\* ----------------------------------------- maybe_install_firmware_update

\* With a firmware update pending: the control block is written with
\* "boot-recovery" and "--wipe_cache" before the image is written.
maybe_install_firmware_update ==
    /\ rpc = "firmware"
    /\ IF fw_pending
       THEN /\ bcb' = [command |-> "boot-recovery",
                       recovery |-> RecoveryField(<< A_wipe_cache >>)]
            /\ rpc' = "firmware_write"
       ELSE /\ rpc' = "finish"
            /\ UNCHANGED bcb
    /\ UNCHANGED << boots, args_in, argv, opts, rstatus, todo, busy, caller,
                    menus, fw_pending, cmd_file, intent, tmplog, tmplog_offset,
                    appends, log, persisted, resolved, started, main_calls, fr_calls,
                    fr_how, copied >>
    /\ UNCHANGED << installVars, keyVars, ioVars, husVars, fsVars, menuVars >>

\* The image is written to the cache partition, the control block gets the
\* command "update-radio", and the device reboots into the bootloader.
FirmwareHandOver ==
    /\ rpc = "firmware_write"
    /\ bcb' = [bcb EXCEPT !.command = "update-radio"]
    /\ cmd_file' = NoFile
    /\ intent' = NoFile
    /\ log' = NoFile
    /\ rpc' = "off"
    /\ UNCHANGED << boots, args_in, argv, opts, rstatus, todo, busy, caller,
                    menus, fw_pending, tmplog, tmplog_offset, appends,
                    persisted, resolved, started, main_calls, fr_calls, fr_how, copied >>
    /\ UNCHANGED << installVars, keyVars, ioVars, husVars, fsVars, menuVars >>

\* main: reboot(RB_AUTOBOOT) after finish_recovery.
reboot ==
    /\ rpc = "reboot"
    /\ rpc' = "off"
    /\ UNCHANGED << boots, procVars, bcb, cmd_file, intent, tmplog,
                    tmplog_offset, appends, log, persisted, resolved, started, main_calls,
                    fr_calls, fr_how, copied >>
    /\ UNCHANGED << installVars, keyVars, ioVars, husVars, fsVars, menuVars >>

\* ------------------------------------------------------ the environment

\* The device loses power, is reset, or recovery is killed, at any point.
\* At the next start the bootloader looks at the control block: with
\* "boot-recovery" it starts recovery, without arguments; with
\* "update-radio" it flashes the firmware, writes "boot-recovery" and
\* starts recovery; otherwise it boots the main system. /tmp is lost.
PowerCycle ==
    /\ rpc \notin {"idle", "off"} \/ (rpc = "off" /\ bcb.command # "")
    /\ rpc # "idle"
    /\ boots < MaxBoots
    /\ IF bcb.command = ""
       THEN /\ rpc' = "off"
            /\ UNCHANGED boots
       ELSE /\ rpc' = "main"
            /\ boots' = boots + 1
    /\ bcb' = IF bcb.command = "update-radio"
              THEN [bcb EXCEPT !.command = "boot-recovery"] ELSE bcb
    /\ args_in' = << >>
    /\ argv' = << >>
    /\ opts' = NoOptions
    /\ rstatus' = INSTALL_SUCCESS
    /\ todo' = << >>
    /\ busy' = ""
    /\ caller' = ""
    /\ menus' = 0
    /\ fw_pending' = FALSE
    /\ tmplog' = << >>
    /\ tmplog_offset' = 0
    /\ appends' = 0
    /\ fr_how' = NoFinish
    /\ copied' = << >>
    /\ UNCHANGED << cmd_file, intent, log, persisted, resolved, started, main_calls,
                    fr_calls >>
    /\ UNCHANGED << installVars, keyVars, ioVars, husVars, fsVars, menuVars >>

\* What is printed to stdout and stderr, both reopened on the temporary
\* log: a line, a line without its end, a line longer than buf.
LogLines == << << "a", "\n" >>, << "b" >>,
               [i \in 1..LOG_BUF_SIZE |-> "c"] \o << NL >> >>

LogAppend ==
    /\ rpc \notin {"idle", "off", "crashed"}
    /\ appends < MaxAppends
    /\ \E k \in 1..Len(LogLines) : tmplog' = tmplog \o LogLines[k]
    /\ appends' = appends + 1
    /\ UNCHANGED << rpc, boots, procVars, bcb, cmd_file, intent, tmplog_offset,
                    log, persisted, resolved, started, main_calls, fr_calls, fr_how, copied >>
    /\ UNCHANGED << installVars, keyVars, ioVars, husVars, fsVars, menuVars >>

\* ---------------------------------------------------------- behaviours

\* The arguments recovery may be invoked with.
InvocationArgs == { << >>, << A_wipe_cache >>, << A_update_package, A_send_intent >>,
                    << A_long, A_wipe_data >>, << A_wipe_data, A_update_package >> }

\* What the control block may hold when recovery starts.
InitialMessages ==
    { NoMessage,
      [command |-> "boot-recovery", recovery |-> RecoveryField(<< A_wipe_data >>)],
      SdcardMessage,
      [command |-> "", recovery |-> << "j", "u", "n", "k", "\n" >> \o ArgLines(<< A_wipe_data >>)] }

\* What the command file may hold when recovery starts: a line; two lines,
\* one ending in \r\n and the last without end; a line and an empty line.
CommandFiles ==
    { NoFile,
      ArgLines(<< A_wipe_cache >>),
      A_update_package \o << "\r", NL >> \o A_send_intent,
      ArgLines(<< A_wipe_data >>) \o << NL >> }

RecoveryStart ==
    /\ boots = 1
    /\ argv = << >>
    /\ opts = NoOptions
    /\ rstatus = INSTALL_SUCCESS
    /\ todo = << >>
    /\ busy = ""
    /\ caller = ""
    /\ menus = 0
    /\ fw_pending = FALSE
    /\ intent = NoFile
    /\ tmplog_offset = 0
    /\ appends = 0
    /\ log = NoFile
    /\ persisted = NoMessage
    /\ resolved = << >>
    /\ started = << >>
    /\ main_calls = << >>
    /\ fr_calls = 0
    /\ fr_how = NoFinish
    /\ copied = << >>

InitRecovery ==
    /\ InitInstall
    /\ tmp_binary = "absent"
    /\ KeysIdle
    /\ IoIdle
    /\ ScriptIdle
    /\ StepsIdle
    /\ MenusIdle
    /\ RecoveryStart
    /\ rpc = "main"
    /\ args_in \in InvocationArgs
    /\ bcb \in InitialMessages
    /\ cmd_file \in CommandFiles
    /\ tmplog = << >>

NextRecovery ==
    \/ get_args
    \/ SelectCommand
    \/ StartCall
    \/ EndCall
    \/ CommandDone
    \/ finish_recovery
    \/ prompt_and_wait
    \/ maybe_install_firmware_update
    \/ FirmwareHandOver
    \/ reboot
    \/ PowerCycle

SpecRecovery == InitRecovery /\ [][NextRecovery]_vars

\* fprintf(stderr, "Starting recovery on %s", ctime(&start)): the first
\* line of the temporary log.
StartLine == << "S", NL >>

\* main has found no command (nothing resolved, status INSTALL_ERROR) and
\* enters prompt_and_wait; the log of an earlier run may be there, and a
\* command file that could not be read.
InitFinish ==
    /\ InitInstall
    /\ tmp_binary = "absent"
    /\ KeysIdle
    /\ IoIdle
    /\ ScriptIdle
    /\ StepsIdle
    /\ MenusIdle
    /\ rpc = "prompt"
    /\ boots = 1
    /\ args_in = << >>
    /\ argv = << >>
    /\ opts = NoOptions
    /\ rstatus = INSTALL_ERROR
    /\ todo = << >>
    /\ busy = ""
    /\ caller = "main"
    /\ menus = 0
    /\ fw_pending = FALSE
    /\ bcb = SdcardMessage
    /\ cmd_file \in { NoFile, ArgLines(<< A_wipe_cache >>) }
    /\ intent = NoFile
    /\ tmplog = StartLine
    /\ tmplog_offset = 0
    /\ appends = 0
    /\ log \in { NoFile, << "o", "l", "d", NL >> }
    /\ persisted = SdcardMessage
    /\ resolved = << << >> >>
    /\ started = << [args |-> << >>, calls |-> << >>] >>
    /\ main_calls = << >>
    /\ fr_calls = 0
    /\ fr_how = NoFinish
    /\ copied = << >>

NextFinish ==
    \/ LogAppend
    \/ finish_recovery
    \/ prompt_and_wait
    \/ StartCall
    \/ EndCall
    \/ CommandDone
    \/ maybe_install_firmware_update
    \/ FirmwareHandOver
    \/ reboot

SpecFinish == InitFinish /\ [][NextFinish]_vars

\* ===================================== finish_recovery, statement by statement

\* (a variant that removes the command file before it resets the block)
NextStep_UnlinkFirst(step) ==
    CASE step = "intent" -> "log"
      [] step = "log" -> "unlink"
      [] step = "unlink" -> "reset"
      [] step = "reset" -> "sync"
      [] OTHER -> "idle"

\* The statement that follows a statement of finish_recovery.
NextStep(step) ==
    CASE step = "intent" -> "log"
      [] step = "log" -> "reset"
      [] step = "reset" -> "unlink"
      [] step = "unlink" -> "sync"
      [] OTHER -> "idle"

\* finish_recovery's send_intent: main passes its send_intent,
\* prompt_and_wait passes NULL.
SendIntent == IF rpc = "finish" THEN opts.send_intent ELSE NULL

\* A statement of finish_recovery was performed.
StepDone(step) ==
    /\ fr_done' = Append(fr_done, step)
    /\ fr_pc' = NextStep(step)

\* finish_recovery is called.
FrEnter ==
    /\ rpc \in {"prompt", "finish"}
    /\ fr_pc = "idle"
    /\ fr_pc' = "intent"
    /\ fr_done' = << >>
    /\ UNCHANGED recVars
    /\ UNCHANGED << installVars, keyVars, ioVars, husVars, menuVars >>

\* if (send_intent != NULL) { fp = fopen_root_path(INTENT_FILE, "w"); ...
\* fputs(send_intent, fp) }
FrIntent ==
    /\ fr_pc = "intent"
    /\ IF SendIntent = NULL
       THEN /\ fr_pc' = NextStep("intent")
            /\ UNCHANGED << intent, fr_done >>
       ELSE /\ \E ok \in BOOLEAN : intent' = IF ok THEN SendIntent ELSE intent
            /\ StepDone("intent")
    /\ UNCHANGED << rpc, boots, procVars, bcb, cmd_file, tmplog, tmplog_offset,
                    appends, log, persisted, resolved, started, main_calls, fr_calls, fr_how,
                    copied >>
    /\ UNCHANGED << installVars, keyVars, ioVars, husVars, menuVars >>

\* log = fopen_root_path(LOG_FILE, "a"); tmplog = fopen(TEMPORARY_LOG_FILE,
\* "r"); the copy from tmplog_offset on; tmplog_offset = ftell(tmplog).
FrCopyLog ==
    /\ fr_pc = "log"
    /\ \E log_ok, tmp_ok \in BOOLEAN :
          LET fresh == CopyLoop(Drop(tmplog, tmplog_offset))
              copy == log_ok /\ tmp_ok
          IN  /\ ~log_ok => tmp_ok
              /\ log' = IF ~log_ok THEN log
                        ELSE (IF log = NoFile THEN << >> ELSE log)
                             \o (IF tmp_ok THEN fresh ELSE << >>)
              /\ tmplog_offset' = IF copy THEN NextOffset(tmplog_offset, Len(tmplog))
                                  ELSE tmplog_offset
              /\ copied' = IF copy THEN copied \o fresh ELSE copied
    /\ StepDone("log")
    /\ UNCHANGED << rpc, boots, procVars, bcb, cmd_file, intent, tmplog, appends,
                    persisted, resolved, started, main_calls, fr_calls, fr_how >>
    /\ UNCHANGED << installVars, keyVars, ioVars, husVars, menuVars >>

\* memset(&boot, 0, sizeof(boot)); set_bootloader_message(&boot)
FrReset ==
    /\ fr_pc = "reset"
    /\ bcb' = ClearedMessage(bcb)
    /\ StepDone("reset")
    /\ UNCHANGED << rpc, boots, procVars, cmd_file, intent, tmplog, tmplog_offset,
                    appends, log, persisted, resolved, started, main_calls, fr_calls, fr_how,
                    copied >>
    /\ UNCHANGED << installVars, keyVars, ioVars, husVars, menuVars >>

\* ensure_root_path_mounted(COMMAND_FILE), translate_root_path, unlink(path):
\* the file system not mounted, unlink failed, or unlink done (ENOENT
\* included).
FrUnlink ==
    /\ fr_pc = "unlink"
    /\ \E how \in {"unmounted", "failed", "done"} :
          /\ cmd_file = NoFile => how # "failed"
          /\ cmd_file' = IF how = "done" THEN NoFile ELSE cmd_file
          /\ fr_how' = how
    /\ StepDone("unlink")
    /\ UNCHANGED << rpc, boots, procVars, bcb, intent, tmplog, tmplog_offset,
                    appends, log, persisted, resolved, started, main_calls, fr_calls, copied >>
    /\ UNCHANGED << installVars, keyVars, ioVars, husVars, menuVars >>

\* sync(); finish_recovery returns to prompt_and_wait or to main.
FrSync ==
    /\ fr_pc = "sync"
    /\ StepDone("sync")
    /\ fr_calls' = fr_calls + 1
    /\ rpc' = IF rpc = "prompt" THEN "menu" ELSE "reboot"
    /\ UNCHANGED << boots, procVars, bcb, cmd_file, intent, tmplog, tmplog_offset,
                    appends, log, persisted, resolved, started, main_calls, fr_how, copied >>
    /\ UNCHANGED << installVars, keyVars, ioVars, husVars, menuVars >>

\* The device loses power or recovery is killed inside finish_recovery:
\* what the control block and the files hold stays as it is.
FrCrash ==
    /\ fr_pc \notin {"idle", "crashed"}
    /\ fr_pc' = "crashed"
    /\ UNCHANGED fr_done
    /\ UNCHANGED << rpc, boots, procVars, bcb, cmd_file, intent, tmplog, tmplog_offset,
                    appends, log, persisted, resolved, started, main_calls, fr_calls, fr_how,
                    copied >>
    /\ UNCHANGED << installVars, keyVars, ioVars, husVars, menuVars >>

\* The commands the control block may hold when finish_recovery is called.
PendingMessages ==
    { SdcardMessage,
      [command |-> "boot-recovery", recovery |-> RecoveryField(<< A_wipe_cache >>)],
      NoMessage }

\* finish_recovery is about to be called: by main, with or without an
\* intent, or by prompt_and_wait.
InitFinishSteps ==
    /\ InitInstall
    /\ tmp_binary = "absent"
    /\ KeysIdle
    /\ IoIdle
    /\ ScriptIdle
    /\ StepsIdle
    /\ MenusIdle
    /\ rpc \in {"prompt", "finish"}
    /\ boots = 1
    /\ args_in = << >>
    /\ argv = << >>
    /\ opts \in {NoOptions, [NoOptions EXCEPT !.send_intent = W_ok]}
    /\ rstatus = IF rpc = "prompt" THEN INSTALL_ERROR ELSE INSTALL_SUCCESS
    /\ todo = << >>
    /\ busy = ""
    /\ caller = "main"
    /\ menus = 0
    /\ fw_pending = FALSE
    /\ bcb \in PendingMessages
    /\ cmd_file \in { NoFile, ArgLines(<< A_wipe_cache >>) }
    /\ intent = NoFile
    /\ tmplog = StartLine
    /\ tmplog_offset = 0
    /\ appends = 0
    /\ log \in { NoFile, << "o", "l", "d", NL >> }
    /\ persisted = bcb
    /\ resolved = << << >> >>
    /\ started = << [args |-> << >>, calls |-> << >>] >>
    /\ main_calls = << >>
    /\ fr_calls = 0
    /\ fr_how = NoFinish
    /\ copied = << >>

NextFinishSteps ==
    \/ FrEnter
    \/ FrIntent
    \/ FrCopyLog
    \/ FrReset
    \/ FrUnlink
    \/ FrSync
    \/ FrCrash

SpecFinishSteps == InitFinishSteps /\ [][NextFinishSteps]_vars

\* =========================================== read_data, handle_update_script

\* The longest script, in bytes, and the largest value the interpreter
\* returns.
MaxScriptLen == 3

MaxRet == 3

\* '\0'
NUL == "\\0"

\* A pointer that is NULL; other pointers into the buffer are offsets.
NULLP == UNSET

\* What the diagnostic prints when it has no line.
NotFound == << "(not found)" >>

ScriptChars == {"a", NL}

ScriptTexts == UNION {[1..n -> ScriptChars] : n \in 0..MaxScriptLen}

\* The update-script entries: the bytes of an entry, and its uncompLen as
\* the int read_data makes of it, (int)mzGetZipEntryUncompLen(entry).  An
\* uncompLen past INT_MAX (2^32 - 1, 2^31 + 1) gives a negative int; the
\* text of such an entry plays no role.
ScriptEntries ==
    {[len |-> Len(t), text |-> t] : t \in ScriptTexts}
    \cup {[len |-> n, text |-> << >>] : n \in {0 - 1, 0 - 2147483647}}

\* What execCommandList may return: 0, or the number of the line that failed.
ExecResults == 0..MaxRet

\* ReadFailed looking at the length test only.
ReadFailed_LengthOnly(r) == r = 0 - 1

\* read_data(...) < 0
ReadFailed(r) == r < 0

\* handle_update_script returns v.
ScriptReturn(v) ==
    /\ hus_value' = v
    /\ hus_pc' = "returned"

\* read_data(zip, update_script_entry, &script_data, &script_len) and the
\* test of its result.  read_data returns -1 for a length <= 0, -2 when
\* malloc fails, -3 when mzReadZipEntry fails, and 0 with the buffer, a
\* '\0' behind it, and its length.
ReadScript ==
    /\ hus_pc = "read_data"
    /\ LET len == hus_entry.len IN
       \E r \in {0 - 1, 0 - 2, 0 - 3, 0} :
          /\ r = 0 - 1 <=> len <= 0
          /\ rd_ret' = r
          /\ \E got \in IF r = 0 - 3 THEN mzReadZipEntry(FALSE, len)
                        ELSE IF r = 0 THEN mzReadZipEntry(TRUE, len)
                        ELSE {UNSET} :
                /\ hus_got' = got
                /\ script_data' = IF got = UNSET THEN << >>
                                  ELSE Take(hus_entry.text, got) \o << NUL >>
          /\ script_len' = IF r = 0 THEN len ELSE UNSET
          /\ IF ReadFailed(r)
             THEN ScriptReturn(INSTALL_ERROR)
             ELSE hus_pc' = "parse" /\ UNCHANGED hus_value
    /\ UNCHANGED << hus_entry, commands, exec_calls, num, hus_ret, line_p, next_p,
                    diag >>
    /\ UNCHANGED << installVars, keyVars, ioVars, recVars, fsVars, menuVars >>

\* commands = parseAmendScript(script_data, script_len); NULL => INSTALL_ERROR
ParseScript ==
    /\ hus_pc = "parse"
    /\ \E ok \in BOOLEAN :
          IF ok
          THEN /\ commands' = "list"
               /\ hus_pc' = "exec"
               /\ UNCHANGED hus_value
          ELSE /\ commands' = "NULL"
               /\ ScriptReturn(INSTALL_ERROR)
    /\ UNCHANGED << hus_entry, rd_ret, hus_got, script_data, script_len,
                    exec_calls, num, hus_ret, line_p, next_p, diag >>
    /\ UNCHANGED << installVars, keyVars, ioVars, recVars, fsVars, menuVars >>

\* ret = execCommandList(...): 0 => INSTALL_SUCCESS; otherwise num = ret,
\* line = NULL, next = script_data, and the loop looks for the line.
ExecScript ==
    /\ hus_pc = "exec"
    /\ exec_calls' = exec_calls + 1
    /\ \E r \in ExecResults :
          /\ hus_ret' = r
          /\ IF r = 0
             THEN /\ ScriptReturn(INSTALL_SUCCESS)
                  /\ UNCHANGED << num, line_p, next_p >>
             ELSE /\ num' = r
                  /\ line_p' = NULLP
                  /\ next_p' = 0
                  /\ hus_pc' = "find_line"
                  /\ UNCHANGED hus_value
    /\ UNCHANGED << hus_entry, rd_ret, hus_got, script_data, script_len,
                    commands, diag >>
    /\ UNCHANGED << installVars, keyVars, ioVars, recVars, fsVars, menuVars >>

\* memchr(data + from, '\n', n): the offset of the first '\n' among the n
\* bytes at offset from, NULL if there is none.
memchr(data, from, n) ==
    LET hits == {i \in from..(from + n - 1) : data[i + 1] = NL} IN
    IF hits = {} THEN NULLP ELSE CHOOSE i \in hits : \A j \in hits : i <= j

\* The string at an offset of the buffer: the bytes before the next '\0'.
RECURSIVE StringAt(_, _)
StringAt(data, off) ==
    IF off + 1 > Len(data) \/ data[off + 1] = NUL THEN << >>
    ELSE << data[off + 1] >> \o StringAt(data, off + 1)

\* One round of while (next != NULL && ret-- > 0): line = next;
\* next = memchr(line, '\n', script_data + script_len - line);
\* if (next != NULL) *next++ = '\0'.
FindLine ==
    /\ hus_pc = "find_line"
    /\ next_p # NULLP /\ hus_ret > 0
    /\ hus_ret' = hus_ret - 1
    /\ line_p' = next_p
    /\ LET at == memchr(script_data, next_p, script_len - next_p) IN
       IF at # NULLP
       THEN /\ script_data' = [script_data EXCEPT ![at + 1] = NUL]
            /\ next_p' = at + 1
       ELSE /\ next_p' = NULLP
            /\ UNCHANGED script_data
    /\ UNCHANGED << hus_pc, hus_entry, rd_ret, hus_got, script_len, commands,
                    exec_calls, num, diag, hus_value >>
    /\ UNCHANGED << installVars, keyVars, ioVars, recVars, fsVars, menuVars >>

\* The loop ends; LOGE(..., num, next ? line : "(not found)");
\* return INSTALL_ERROR.
ReportLine ==
    /\ hus_pc = "find_line"
    /\ ~(next_p # NULLP /\ hus_ret > 0)
    /\ hus_ret' = IF next_p # NULLP THEN hus_ret - 1 ELSE hus_ret
    /\ diag' = IF next_p # NULLP THEN StringAt(script_data, line_p) ELSE NotFound
    /\ ScriptReturn(INSTALL_ERROR)
    /\ UNCHANGED << hus_entry, rd_ret, hus_got, script_data, script_len,
                    commands, exec_calls, num, line_p, next_p >>
    /\ UNCHANGED << installVars, keyVars, ioVars, recVars, fsVars, menuVars >>

InitScript ==
    /\ InitInstall
    /\ tmp_binary = "absent"
    /\ KeysIdle
    /\ IoIdle
    /\ RecoveryIdle
    /\ StepsIdle
    /\ MenusIdle
    /\ hus_pc = "read_data"
    /\ hus_entry \in ScriptEntries
    /\ rd_ret = UNSET
    /\ hus_got = UNSET
    /\ script_data = << >>
    /\ script_len = UNSET
    /\ commands = "unset"
    /\ exec_calls = 0
    /\ num = 0
    /\ hus_ret = 0
    /\ line_p = UNSET
    /\ next_p = UNSET
    /\ diag = << >>
    /\ hus_value = UNSET

NextScript ==
    \/ ReadScript
    \/ ParseScript
    \/ ExecScript
    \/ FindLine
    \/ ReportLine

SpecScript == InitScript /\ [][NextScript]_vars

\* ---------------------------------------------------------------- menus

\* The keys a menu may be given at most.
MaxPresses == 6

\* The actions of recovery_ui.h, and the (negative) number of each.
ActionNames == << "NO_ACTION", "HIGHLIGHT_UP", "HIGHLIGHT_DOWN", "SELECT_ITEM",
                  "SELECT_BACK", "SELECT_LEFT", "SELECT_RIGHT" >>

Code(name) == 0 - (CHOOSE i \in 1..Len(ActionNames) : ActionNames[i] = name)

\* The keys ui_wait_key may give: those device_handle_key knows, and another.
Keys == { "KEY_DOWN", "KEY_UP", "KEY_ENTER", "KEY_CENTER", "BTN_MOUSE", "KEY_F21",
         "KEY_BACK", "KEY_POWER", "KEY_LEFT", "KEY_SEND", "KEY_VOLUMEDOWN",
         "KEY_RIGHT", "KEY_END", "KEY_VOLUMEUP", "KEY_HOME" }

\* device_handle_key(key_code, visible)
device_handle_key(key_code, visible) ==
    IF ~visible THEN Code("NO_ACTION")
    ELSE IF key_code = "KEY_DOWN" THEN Code("HIGHLIGHT_DOWN")
    ELSE IF key_code = "KEY_UP" THEN Code("HIGHLIGHT_UP")
    ELSE IF key_code \in {"KEY_ENTER", "KEY_CENTER", "BTN_MOUSE", "KEY_F21"}
    THEN Code("SELECT_ITEM")
    ELSE IF key_code \in {"KEY_BACK", "KEY_POWER"} THEN Code("SELECT_BACK")
    ELSE IF key_code \in {"KEY_LEFT", "KEY_SEND", "KEY_VOLUMEDOWN"}
    THEN Code("SELECT_LEFT")
    ELSE IF key_code \in {"KEY_RIGHT", "KEY_END", "KEY_VOLUMEUP"}
    THEN Code("SELECT_RIGHT")
    ELSE Code("NO_ACTION")

\* ui_menu_select(sel) with a menu of the given number of items: the
\* selection stays within the menu, stopping at its ends or going round.
ui_menu_select(sel, items) ==
    { IF sel < 0 THEN 0 ELSE IF sel >= items THEN items - 1 ELSE sel,
      (sel + items) % items }

\* case HIGHLIGHT_UP: --selected; ... case HIGHLIGHT_DOWN: ++selected; ...
\* the values selected may have after the action.
Highlight(a, sel, items) ==
    IF a = Code("HIGHLIGHT_UP") THEN ui_menu_select(sel - 1, items)
    ELSE IF a = Code("HIGHLIGHT_DOWN") THEN ui_menu_select(sel + 1, items)
    ELSE {sel}

\* wipe_data(confirm) is called: with confirm the menu of two items opens.
WipeDataEnter ==
    /\ m_pc = "idle"
    /\ m_fn' = "wipe_data"
    /\ \E c \in {0, 1} :
          /\ confirm' = c
          /\ m_pc' = IF c # 0 THEN "get_menu_selection" ELSE "device_wipe_data"
    /\ selected' = 0
    /\ chosen_item' = 0 - 1
    /\ UNCHANGED << key, action, presses, mbsd, mbvf, mbex, mbsw, m_calls >>
    /\ UNCHANGED << installVars, keyVars, ioVars, recVars, husVars, fsVars >>

\* get_menu_selection(headers, items, 1): one turn of its loop.
MenuKey ==
    /\ m_pc = "get_menu_selection"
    /\ presses < MaxPresses
    /\ presses' = presses + 1
    /\ \E k \in Keys, shown \in BOOLEAN :
          LET a == device_handle_key(k, shown) IN
          /\ key' = k
          /\ action' = a
          /\ IF a < 0
             THEN /\ selected' \in Highlight(a, selected, 2)
                  /\ chosen_item' = IF a = Code("SELECT_BACK") THEN a
                                    ELSE IF a = Code("SELECT_ITEM") THEN selected
                                    ELSE chosen_item
             ELSE UNCHANGED << selected, chosen_item >>
          /\ m_pc' = IF a = Code("SELECT_BACK") \/ chosen_item' >= 0
                     THEN "chosen" ELSE m_pc
    /\ UNCHANGED << m_fn, confirm, mbsd, mbvf, mbex, mbsw, m_calls >>
    /\ UNCHANGED << installVars, keyVars, ioVars, recVars, husVars, fsVars >>

\* (a variant that gives way to back alone)
Declined_BackOnly(chosen) == chosen < 0

\* if (chosen_item != 1) return;
Declined(chosen) == chosen # 1

\* wipe_data after get_menu_selection returned.
WipeDataChosen ==
    /\ m_pc = "chosen"
    /\ m_pc' = IF Declined(chosen_item) THEN "returned" ELSE "device_wipe_data"
    /\ UNCHANGED << m_fn, confirm, selected, chosen_item, key, action, presses,
                    mbsd, mbvf, mbex, mbsw, m_calls >>
    /\ UNCHANGED << installVars, keyVars, ioVars, recVars, husVars, fsVars >>

\* device_wipe_data(); erase_root("DATA:"); erase_root("CACHE:"); what they
\* return is not looked at.
WipeCall ==
    /\ m_pc \in {"device_wipe_data", "erase DATA:", "erase CACHE:"}
    /\ m_calls' = Append(m_calls, [call |-> m_pc, args |-> << >>])
    /\ m_pc' = IF m_pc = "device_wipe_data" THEN "erase DATA:"
               ELSE IF m_pc = "erase DATA:" THEN "erase CACHE:"
               ELSE "returned"
    /\ UNCHANGED << m_fn, confirm, selected, chosen_item, key, action, presses,
                    mbsd, mbvf, mbex, mbsw >>
    /\ UNCHANGED << installVars, keyVars, ioVars, recVars, husVars, fsVars >>

\* size >> 20
MEBI == 1048576

VFAT_PERCENT == 70

BIG_STEP == 128

SMALL_STEP == 16

\* What get_sdcard_size may return: 0 (no card), less than 1 MB, and cards
\* of 100 MB and a little, 200 MB and 300 MB.
CardSizes == { 0, 1000, 100 * MEBI + 5, 200 * MEBI, 300 * MEBI }

\* process_partition is called: without a card it returns; otherwise 70% of
\* the card go to vfat, the rest to ext3, nothing to swap.
PartitionEnter ==
    /\ m_pc = "idle"
    /\ m_fn' = "process_partition"
    /\ \E bytes \in CardSizes :
          IF bytes = 0
          THEN /\ m_pc' = "returned"
               /\ UNCHANGED << mbsd, mbvf, mbex, mbsw >>
          ELSE /\ m_pc' = "menu"
               /\ mbsd' = bytes \div MEBI
               /\ mbvf' = (mbsd' * VFAT_PERCENT) \div 100
               /\ mbex' = mbsd' - mbvf'
               /\ mbsw' = 0
    /\ selected' = 0
    /\ UNCHANGED << confirm, chosen_item, key, action, presses, m_calls >>
    /\ UNCHANGED << installVars, keyVars, ioVars, recVars, husVars, fsVars >>

\* (a variant without the lower limit)
Limit_NoFloor(v, room) == IF v > room THEN room ELSE v

\* if (v < 0) v = 0; if (v > room) v = room;
Limit(v, room) ==
    LET w == IF v < 0 THEN 0 ELSE v IN
    IF w > room THEN room ELSE w

\* (action == SELECT_LEFT) ? (-by) : by
Step(a, by) == IF a = Code("SELECT_LEFT") THEN 0 - by ELSE by

\* process_partition: one turn of its loop.
PartitionKey ==
    /\ m_pc = "menu"
    /\ presses < MaxPresses
    /\ presses' = presses + 1
    /\ \E k \in Keys, shown \in BOOLEAN :
          LET a == device_handle_key(k, shown) IN
          /\ key' = k
          /\ action' = a
          /\ selected' \in Highlight(a, selected, 3)
          /\ m_pc' = IF a = Code("SELECT_BACK") THEN "returned"
                     ELSE IF a = Code("SELECT_ITEM") /\ mbvf # 0 THEN "confirm"
                     ELSE m_pc
          /\ IF a \in {Code("SELECT_LEFT"), Code("SELECT_RIGHT")}
             THEN /\ mbvf' = IF selected = 0
                             THEN Limit(mbvf + Step(a, BIG_STEP), mbsd - mbex - mbsw)
                             ELSE mbvf
                  /\ mbex' = IF selected = 1
                             THEN Limit(mbex + Step(a, BIG_STEP), mbsd - mbvf - mbsw)
                             ELSE mbex
                  /\ mbsw' = IF selected = 2
                             THEN Limit(mbsw + Step(a, SMALL_STEP), mbsd - mbex - mbvf)
                             ELSE mbsw
             ELSE UNCHANGED << mbvf, mbex, mbsw >>
    /\ UNCHANGED << m_fn, confirm, chosen_item, mbsd, m_calls >>
    /\ UNCHANGED << installVars, keyVars, ioVars, recVars, husVars, fsVars >>

\* key == KEY_CENTER || key == KEY_ENTER || key == BTN_MOUSE || key == KEY_F21
ConfirmKeys == { "KEY_CENTER", "KEY_ENTER", "BTN_MOUSE", "KEY_F21" }

\* After SELECT_ITEM: the next key, whatever the display shows, starts
\* /sbin/partsdc.sh -v mbvf -e mbex -s mbsw if it is a confirming one.
PartitionConfirm ==
    /\ m_pc = "confirm"
    /\ presses' = presses + 1
    /\ \E k \in Keys :
          /\ key' = k
          /\ m_calls' = IF k \in ConfirmKeys
                        THEN Append(m_calls, [call |-> "execute",
                                              args |-> << mbvf, mbex, mbsw >>])
                        ELSE m_calls
    /\ m_pc' = "returned"
    /\ UNCHANGED << m_fn, confirm, selected, chosen_item, action, mbsd, mbvf, mbex,
                    mbsw >>
    /\ UNCHANGED << installVars, keyVars, ioVars, recVars, husVars, fsVars >>

InitMenus ==
    /\ InitInstall
    /\ tmp_binary = "absent"
    /\ KeysIdle
    /\ IoIdle
    /\ RecoveryIdle
    /\ ScriptIdle
    /\ StepsIdle
    /\ MenusIdle

NextMenus ==
    \/ WipeDataEnter
    \/ MenuKey
    \/ WipeDataChosen
    \/ WipeCall
    \/ PartitionEnter
    \/ PartitionKey
    \/ PartitionConfirm

SpecMenus == InitMenus /\ [][NextMenus]_vars

\* --------------------------------------------------- claims on get_args

\* The lines of a text, without their "\n".
RECURSIVE TextLines(_)
TextLines(text) ==
    IF text = << >> THEN << >>
    ELSE LET n == FirstIn(text, {NL}) IN
         IF n <= Len(text) THEN << Take(text, n - 1) >> \o TextLines(Drop(text, n))
         ELSE << text >>

\* A line without the "\r" of its ending.
StripEnd(line) ==
    IF line # << >> /\ line[Len(line)] = "\r" THEN Take(line, Len(line) - 1)
    ELSE line

\* The arguments after the marker line of a control block, none without it.
MarkerArgs(boot) ==
    LET lines == TextLines(boot.recovery) IN
    IF lines # << >> /\ Head(lines) = W_recovery THEN Tail(lines) ELSE << >>

\* The argument lists the precedence allows in the current state: the
\* invocation's; else the control block's; else the command file's lines,
\* or none when the file is absent or cannot be opened.
ExpectedArgs ==
    IF args_in # << >> THEN { args_in }
    ELSE IF MarkerArgs(bcb) # << >> THEN { MarkerArgs(bcb) }
    ELSE IF cmd_file = NoFile THEN { << >> }
    ELSE { << >>,
           [k \in 1..Len(TextLines(cmd_file)) |-> StripEnd(TextLines(cmd_file)[k])] }

\* C14: get_args resolves the argument list by precedence: the invocation's
\* arguments if there are any; else the lines after the marker "recovery" of
\* the control block; else the command file's lines, one argument for each
\* line, its ending stripped.
C14_ArgumentPrecedence ==
    [][ (rpc = "main" /\ rpc' \notin {"main", "off"})
        => (rpc' = "options" /\ argv' \in ExpectedArgs) ]_vars

\* C15: get_args writes the control block with the command "boot-recovery"
\* and a recovery field made of the marker line and every resolved argument,
\* in order, whichever source they came from; and while main has
\* install_package, device_wipe_data or erase_root running, that write has
\* been done and is what the control block holds.
C15_PersistedBeforeActing ==
    /\ [][ (rpc = "main" /\ rpc' = "options")
           => /\ bcb'.command = "boot-recovery"
              /\ TextLines(bcb'.recovery) = << W_recovery >> \o argv' ]_vars
    /\ [](caller = "main" /\ busy # ""
           => bcb = persisted /\ persisted.command = "boot-recovery")

\* C16: after a crash or reboot between the write of get_args and the first
\* finish_recovery after it, recovery restarted without arguments resolves
\* from the control block the argument list that was resolved and persisted
\* before, and main selects the same calls for the same arguments.
C16_RestartResumesCommand ==
    /\ [][ (/\ rpc = "main" /\ rpc' = "options"
            /\ boots >= 2
            /\ fr_calls = 0
            /\ persisted.command = "boot-recovery"
            /\ resolved # << >>
            /\ resolved[Len(resolved)] # << >>)
           => argv' = resolved[Len(resolved)] ]_vars
    /\ [](\A i, j \in 1..Len(started) :
             started[i].args = started[j].args
                => started[i].calls = started[j].calls)

\* The calls that destroy data: install_package and erase_root.
Destructive == {"install_package", "erase DATA:", "erase CACHE:"}

\* C17: whenever install_package or erase_root of DATA: or CACHE: is in
\* progress, started by main or from the menu, the control block holds a
\* boot-recovery command.
C17_DestructiveOnlyWhilePersisted ==
    busy \in Destructive => bcb.command = "boot-recovery"

\* C20: once get_args has returned, what it wrote to the control block
\* stays there until the commanded operation has returned, and is emptied
\* only by finish_recovery; finish_recovery is called only when main has
\* selected its command and no call of it is pending or running.
C20_ClearedOnlyWhenDone ==
    /\ [][ (/\ bcb = persisted /\ persisted.command = "boot-recovery"
            /\ fr_calls = 0 /\ rpc # "main" /\ bcb' # bcb)
           => /\ rpc \in {"prompt", "finish", "firmware"}
              /\ bcb'.command = "" => rpc \in {"prompt", "finish"} ]_vars
    /\ [](rpc \in {"prompt", "finish", "firmware"}
            => busy = "" /\ todo = << >> /\ started # << >>)

\* finish_recovery has emptied the control block after a commanded
\* operation was run.
C20_Witness ==
    /\ rpc \in {"menu", "reboot"}
    /\ fr_calls = 1
    /\ bcb = NoMessage
    /\ persisted.command = "boot-recovery"
    /\ started # << >>
    /\ started[Len(started)].calls # << >>
    /\ started[Len(started)].args = argv

\* ---------------------------------------------- claims on finish_recovery

\* C18: within one process, whatever the order of appends to the temporary
\* log and calls of finish_recovery, the bytes the calls have appended to
\* the persistent log are the temporary log's first bytes, in order and
\* once each, up to the offset kept; a call adds to the persistent log what
\* it copied and nothing else; a call that could not open a log changes
\* neither.
C18_LogCopiedOnce ==
    /\ [](copied = Take(tmplog, Len(copied)) /\ tmplog_offset = Len(copied))
    /\ [][ (log' # log /\ log' # NoFile)
           => log' = (IF log = NoFile THEN << >> ELSE log)
                     \o Drop(copied', Len(copied)) ]_vars

\* Two or more calls, an append, a line longer than the buffer, and all of
\* the temporary log copied.
C18_Witness ==
    /\ fr_calls >= 2
    /\ appends >= 1
    /\ Len(tmplog) > LOG_BUF_SIZE
    /\ copied = tmplog
    /\ log # NoFile
    /\ Len(log) = Len(copied) + 4

\* finish_recovery has just returned: to the menu, or to main's reboot.
AfterFinish == rpc \in {"menu", "reboot"}

\* C19 (as stated): after every call of finish_recovery the control block
\* is empty, and the command file is absent whenever its file system could
\* be mounted.
C19_BlockEmptyFileAbsent ==
    AfterFinish => /\ bcb = NoMessage
                   /\ fr_how # "unmounted" => cmd_file = NoFile

\* C19 (amended): after every call of finish_recovery the control block is
\* empty, whether or not the intent file and the logs could be opened, and
\* the command file is absent whenever its file system could be mounted and
\* unlink did not fail with an error other than ENOENT.
C19_BlockEmptyFileUnlinked ==
    AfterFinish => /\ bcb = NoMessage
                   /\ fr_how = "done" => cmd_file = NoFile

\* The last finish_recovery of main has returned: the intent file and the
\* log could not be opened, the control block that held the command is
\* empty and the command file is absent.
C19_Witness ==
    /\ rpc = "reboot"
    /\ persisted.command = "boot-recovery"
    /\ opts.send_intent # NULL
    /\ intent = NoFile
    /\ log = NoFile
    /\ bcb = NoMessage
    /\ fr_how = "done"
    /\ cmd_file = NoFile

\* ------------------------------------------------------- claims on main

\* main is past prompt_and_wait: at maybe_install_firmware_update, at the
\* last finish_recovery, or at reboot.
PastPrompt == rpc \in {"firmware", "firmware_write", "finish", "reboot"}

\* C21: when the commanded operation ended with a status other than
\* INSTALL_SUCCESS, or no command was given, main does not get to its
\* reboot (nor to the firmware hand-over) before prompt_and_wait was
\* entered and the user made a menu selection there.
C21_FailureStopsAtMenu ==
    (PastPrompt /\ rstatus # INSTALL_SUCCESS)
        => (menus >= 1 /\ fr_calls >= 1)

\* A package install that failed, the menu, and main at its reboot.
C21_Witness ==
    /\ rpc = "reboot"
    /\ rstatus \in {INSTALL_ERROR, INSTALL_CORRUPT}
    /\ opts.update_package # NULL
    /\ menus >= 1

\* The control block tells the bootloader to start recovery, and its
\* recovery field is the marker line alone.
MarkerOnly(boot) ==
    boot.command = "boot-recovery" /\ TextLines(boot.recovery) = << W_recovery >>

\* Recovery was restarted after a run that was cut short between the write
\* of install_zip_file and the next finish_recovery.
RestartedAfterMenuInstall ==
    rpc = "main" /\ boots >= 2 /\ fr_calls >= 1 /\ MarkerOnly(bcb)

\* C26 (as stated): while install_package runs for install_zip_file the
\* control block holds boot-recovery and the marker alone; a reboot then
\* starts recovery again, which resolves no command.
C26_MenuInstallNotResumed ==
    /\ [](busy = "install_package" /\ caller = "menu_install" => MarkerOnly(bcb))
    /\ [][ (busy = "install_package" /\ caller = "menu_install" /\ boots' # boots)
           => (rpc' = "main" /\ RestartedAfterMenuInstall') ]_vars
    /\ [][ (RestartedAfterMenuInstall /\ rpc' \notin {"main", "off"})
           => (rpc' = "options" /\ argv' = << >>) ]_vars

\* C26 (amended): while install_package runs for install_zip_file the
\* control block holds boot-recovery and the marker alone; a reboot then
\* starts recovery again, which gets no argument from the control block
\* and, unless a command file is still there, resolves no command.
C26_MenuInstallResumedFromFileOnly ==
    /\ [](busy = "install_package" /\ caller = "menu_install" => MarkerOnly(bcb))
    /\ [][ (busy = "install_package" /\ caller = "menu_install" /\ boots' # boots)
           => (rpc' = "main" /\ RestartedAfterMenuInstall') ]_vars
    /\ [][ (RestartedAfterMenuInstall /\ rpc' \notin {"main", "off"}
               /\ cmd_file = NoFile)
           => (rpc' = "options" /\ argv' = << >>) ]_vars
    /\ [](RestartedAfterMenuInstall => MarkerArgs(bcb) = << >>)

\* Recovery was restarted after an interrupted menu install, and finds no
\* command file.
C26_Witness ==
    /\ RestartedAfterMenuInstall
    /\ cmd_file = NoFile
    /\ args_in = << >>

\* ------------------------------------------ claims: record terminators

\* Every record of the file ends with its two closing braces.
AllRecordsClosed(file) ==
    \A i \in 1..Len(file.recs) : KeyRecords[file.recs[i]].close

\* C27: load_keys returns a non-empty key set only for input in which every
\* record is terminated by its two closing braces; a record without them,
\* followed by a comma or by the end of the input, fails the parse with zero
\* keys.
C27_ClosingBracesRequired ==
    (key_pc = "returned" /\ keys_ret = "out" /\ numKeys >= 1) =>
        AllRecordsClosed(key_file)

\* ------------------------------------------- claims: the archive's lifetime

\* mzOpenZipArchive succeeded in this call of install_package.
ArchiveWasOpened ==
    \E i \in 1..Len(steps) : steps[i] = "open"

\* C24: in every call of install_package that opened the archive, the
\* archive is closed before install_package returns, on every return path
\* after the open, signature verification failure included.
C24_ArchiveClosedOnReturn ==
    (pc = "done" /\ ArchiveWasOpened) => ~zip_open

\* ------------------------------------------- claims: the key set's lifetime

\* load_keys returned a key set in this call of install_package.
KeysWereLoaded ==
    \E i \in 1..Len(steps) : steps[i] = "load_keys"

\* C28: every key set load_keys returned to install_package has been freed
\* when install_package returns, on every return path after the load, the
\* failure to open the archive included.
C28_KeySetFreedOnReturn ==
    (pc = "done" /\ KeysWereLoaded) => loadedKeys = "freed"

\* ------------------------------------------ claims: the firmware payload

\* The exits of handle_firmware_update that stand for a failure: the entry
\* is missing, the file cannot be examined, opened or read in full, the
\* entry cannot be read, or remember_firmware_update fails.
FirmwareFailures ==
    {"no_entry", "stat_failed", "fopen_failed", "entry_read_failed",
     "short_read", "remember_failed"}

\* C25: handle_firmware_update calls remember_firmware_update at most once
\* and only after the whole payload was obtained (all data_size bytes of the
\* entry or of the file); a missing entry, an unreadable or unopenable file,
\* a read of fewer bytes than the file size and a failure of
\* remember_firmware_update each yield INSTALL_ERROR.
C25_RememberOnlyWholePayload ==
    /\ remember_calls <= 1
    /\ remember_calls = 1 =>
          (fw_calls = 1 /\ data_size # UNSET /\ data_got = data_size)
    /\ (fw_calls = 1 /\ data_got # UNSET /\ data_got < data_size) =>
          (remember_calls = 0 /\ result = INSTALL_ERROR)
    /\ (fw_calls = 1 /\ fw_exit \in FirmwareFailures) => result = INSTALL_ERROR

C25_Witness ==
    /\ fw_exit = "remember_failed"
    /\ ~HasPackagePrefix(firmware_filename)
    /\ remember_calls = 1
    /\ data_size >= 1
    /\ data_got = data_size
    /\ result = INSTALL_ERROR

\* ------------------------------------------- claims: the child processes

\* try_update_binary found the update-binary entry, extracted it to the
\* temporary path and is past its fork().
BinaryExtractedAndPastFork ==
    has_binary /\ tmp_binary = "fresh" /\ pc # "fork"

\* try_update_binary left before the fork: no entry, or the temporary file
\* could not be created or extracted.
LeftBeforeFork ==
    tub_exit \in {"no_entry", "creat_failed", "extract_failed"}

\* C30: one call of try_update_binary forks exactly one child when the
\* update-binary entry exists and was extracted to the temporary path, and
\* forks none when the entry is absent or the temporary file cannot be
\* created or extracted; install_package creates at most one child.
C30_ExactlyOneChild ==
    /\ BinaryExtractedAndPastFork => forks = 1
    /\ LeftBeforeFork => forks = 0
    /\ forks <= 1

\* C30, with fork() allowed to fail: try_update_binary calls fork() exactly
\* once when the entry exists and was extracted, and not at all otherwise;
\* the call creates one child unless it fails, in which case there is none.
C30_ExactlyOneForkCall ==
    /\ BinaryExtractedAndPastFork => fork_calls = 1
    /\ tmp_binary # "fresh" => fork_calls = 0
    /\ LeftBeforeFork => (fork_calls = 0 /\ forks = 0)
    /\ forks <= fork_calls
    /\ fork_calls <= 1
    /\ (fork_calls = 1 /\ forks = 0) => child_pc = "none"
    /\ forks = 1 => child_pc # "none"

C30_Witness ==
    /\ pc = "done"
    /\ tmp_binary = "fresh"
    /\ fork_calls = 1
    /\ forks = 1
    /\ child_pc = "exited"

\* ----------------------------------------- claims: handle_update_script

\* The source lines of the script.
ScriptLines == TextLines(hus_entry.text)

\* C22: when the interpreter returns a non-zero k for a script of at least
\* k lines, handle_update_script returns INSTALL_ERROR and the diagnostic
\* gives the k-th line of the script, also when line k is the last line and
\* has no newline behind it.
C22_DiagnosticNamesFailedLine ==
    (hus_pc = "returned" /\ exec_calls = 1 /\ num >= 1 /\ Len(ScriptLines) >= num) =>
        /\ hus_value = INSTALL_ERROR
        /\ diag = ScriptLines[num]

\* C23: handle_update_script returns INSTALL_SUCCESS only if the entry was
\* read in full, parsed, and executed with result 0; a length <= 0, a read
\* failure, a parse failure and a non-zero execution result each yield
\* INSTALL_ERROR; and neither the parser nor the interpreter is invoked on a
\* buffer that was not fully read.
C23_SuccessOnlyAfterFullRun ==
    /\ hus_value = INSTALL_SUCCESS =>
          /\ rd_ret = 0 /\ hus_got = Len(hus_entry.text)
          /\ commands = "list"
          /\ exec_calls = 1 /\ num = 0 /\ hus_ret = 0
    /\ (hus_pc = "returned"
        /\ (hus_entry.len <= 0 \/ rd_ret < 0 \/ commands = "NULL" \/ num # 0)) =>
          hus_value = INSTALL_ERROR
    /\ (commands # "unset" \/ exec_calls >= 1) =>
          /\ hus_entry.len >= 1
          /\ rd_ret = 0
          /\ hus_got = hus_entry.len
          /\ script_len = hus_entry.len
          /\ (exec_calls = 0 =>
                 script_data = hus_entry.text \o << NUL >>)
    /\ exec_calls >= 1 => commands = "list"
    /\ hus_pc = "returned" => hus_value \in {INSTALL_SUCCESS, INSTALL_ERROR}

C23_Witness ==
    /\ hus_pc = "returned"
    /\ hus_value = INSTALL_SUCCESS
    /\ hus_entry.len >= 2
    /\ script_data = hus_entry.text \o << NUL >>
    /\ exec_calls = 1

\* ------------------------------- claims: the order of finish_recovery's steps

\* The steps in the order the claim gives them; the intent file is only
\* written when an intent was given.
StepOrder == << "intent", "log", "reset", "unlink", "sync" >>

\* main hands its send_intent on (and reboots afterwards); prompt_and_wait
\* gives none.
IntentGiven == opts.send_intent # NULL /\ rpc \in {"finish", "reboot"}

ExpectedSteps == IF IntentGiven THEN StepOrder ELSE Tail(StepOrder)

HasDone(step) == \E i \in 1..Len(fr_done) : fr_done[i] = step

\* C29: finish_recovery performs its steps in a fixed order: intent file (if
\* an intent was given), log copy, control-block reset, command-file
\* removal, sync.  So at any point inside it, a crash included, the command
\* file has not been removed while the control block still holds the
\* command, and the block is never reset before the log copy was attempted.
C29_FixedStepOrder ==
    /\ [](/\ Len(fr_done) <= Len(ExpectedSteps)
          /\ fr_done = Take(ExpectedSteps, Len(fr_done))
          /\ HasDone("unlink") => bcb = NoMessage
          /\ HasDone("reset") => HasDone("log"))
    /\ [][cmd_file' # cmd_file => (bcb = NoMessage /\ bcb' = NoMessage)]_vars
    /\ [][bcb' # bcb => HasDone("log")]_vars
    /\ [][(fr_pc = "sync" /\ fr_pc' = "idle") => fr_done' = ExpectedSteps]_vars

C29_Witness ==
    /\ fr_pc = "crashed"
    /\ fr_done = << "intent", "log", "reset" >>
    /\ persisted.command = "boot-recovery"
    /\ bcb = NoMessage
    /\ cmd_file # NoFile

\* --------------------------------------- claims: the display calls in order

\* The lines the child wrote, as the child means them.
ChildLines == TextLines(Stream(script, Len(script)))

\* The display call a line asks for: its kind, and its arguments when the
\* line gives them all.  No call for a line with another verb.
ExpectedCall(text) ==
    LET verb == strtok(text, {SP})
        a == strtok(verb.rest, {SP})
        b == strtok(a.rest, {SP})
    IN  IF verb.tok = W_progress
        THEN [call |-> "ui_show_progress",
              given |-> a.tok # NULL /\ b.tok # NULL,
              num |-> IF a.tok # NULL /\ b.tok # NULL
                      THEN << (strtof(a.tok) * (ONE - VERIFICATION_PROGRESS_FRACTION))
                                 \div ONE, strtol(b.tok) >>
                      ELSE << >>,
              str |-> << >>]
        ELSE IF verb.tok = W_set_progress
        THEN [call |-> "ui_set_progress",
              given |-> a.tok # NULL,
              num |-> IF a.tok # NULL THEN << strtof(a.tok) >> ELSE << >>,
              str |-> << >>]
        ELSE IF verb.tok = W_ui_print
        THEN [call |-> "ui_print", given |-> TRUE, num |-> << >>,
              str |-> IF verb.rest = << >> THEN << NL >> ELSE verb.rest]
        ELSE [call |-> "", given |-> TRUE, num |-> << >>, str |-> << >>]

RECURSIVE ExpectedCalls(_)
ExpectedCalls(texts) ==
    IF texts = << >> THEN << >>
    ELSE LET c == ExpectedCall(Head(texts)) IN
         (IF c.call = "" THEN << >> ELSE << c >>) \o ExpectedCalls(Tail(texts))

\* The display calls made since the child was started: those after the
\* call that gave verification its share of the bar.
ChildCalls == Tail(ui_log)

\* The child has written all its lines and has ended, and the parent is not
\* reading the pipe (any more).
OutputOver == forks = 1 /\ child_pc = "exited" /\ pc \notin {"fork", "read"}

\* C31: the parent handles the protocol lines in the order the child wrote
\* them: every progress, set_progress and ui_print line has produced exactly
\* one display call of its kind, with the arguments the line gives, and the
\* calls are in line order.
C31_OneCallPerLineInOrder ==
    OutputOver =>
        LET want == ExpectedCalls(ChildLines) IN
        /\ Len(ChildCalls) = Len(want)
        /\ \A i \in 1..Len(want) :
              /\ ChildCalls[i].call = want[i].call
              /\ want[i].given =>
                    (ChildCalls[i].num = want[i].num /\ ChildCalls[i].str = want[i].str)

\* ------------------- claims: ensure_read and ensure_write come to an end

\* The bytes still missing before call i.
MissingBefore(i) == io_size - Moved(Take(io_calls, i - 1))

\* C32: ensure_read and ensure_write terminate whatever the underlying call
\* returns: they make at most size calls, stop at the first zero or negative
\* result, never ask for more than the bytes still missing (so never
\* transfer more than size), make no call and return 0 for size 0, and
\* return -1 for a negative size.
C32_BoundedTransfer ==
    /\ <>(io_pc = "returned")
    /\ [](/\ Len(io_calls) <= (IF io_size > 0 THEN io_size ELSE 0)
          /\ Len(io_asked) = Len(io_calls)
          /\ \A i \in 1..Len(io_calls) :
                /\ io_asked[i] = MissingBefore(i)
                /\ io_asked[i] >= 1
                /\ io_calls[i] <= io_asked[i]
                /\ io_calls[i] <= 0 => (i = Len(io_calls) /\ io_pc = "returned")
          /\ Moved(io_calls) <= (IF io_size > 0 THEN io_size ELSE 0)
          /\ io_n = Moved(io_calls)
          /\ (io_pc = "returned" /\ io_size = 0) => (io_ret = 0 /\ io_calls = << >>)
          /\ (io_pc = "returned" /\ io_size < 0) => (io_ret = 0 - 1 /\ io_calls = << >>))

C32_Witness ==
    /\ io_pc = "returned"
    /\ io_op = "ensure_read"
    /\ io_size = 3
    /\ io_calls = << 1, 1, 1 >>
    /\ io_asked = << 3, 2, 1 >>
    /\ io_ret = 0

\* --------------------------------- claims: the temporary installer file

MainCalls == [i \in 1..Len(main_calls) |-> main_calls[i].call]

\* The calls the options ask for, by priority: the package, else the data
\* wipe, else the cache wipe, else nothing.
Commanded(o) ==
    IF o.update_package # NULL THEN << "install_package" >>
    ELSE IF o.wipe_data = 1
    THEN << "device_wipe_data", "erase DATA:", "erase CACHE:" >>
    ELSE IF o.wipe_cache = 1 THEN << "erase CACHE:" >>
    ELSE << >>

AnyCallFailed == \E i \in 1..Len(main_calls) : main_calls[i].st # INSTALL_SUCCESS

\* main's command is through: main goes on to the menu or to the firmware
\* check.
MainCommandEnds ==
    caller = "main" /\ rpc = "running" /\ rpc' \in {"prompt", "firmware"}

\* C34: main carries out at most one command per start, by fixed priority:
\* with --update_package only install_package is called, whatever wipe
\* option is given as well; otherwise --wipe_data calls device_wipe_data,
\* erases DATA: and then CACHE:, every step being made even after one has
\* failed, and the status is INSTALL_ERROR if any failed; otherwise
\* --wipe_cache erases CACHE: alone; with none of them the status is
\* INSTALL_ERROR and nothing is called.
C34_OneCommandByPriority ==
    /\ []((rpc = "running" /\ caller = "main")
             => IsPrefix(MainCalls, Commanded(opts)))
    /\ [][MainCommandEnds =>
             /\ MainCalls = Commanded(opts)
             /\ opts.update_package # NULL => rstatus = main_calls[1].st
             /\ (opts.update_package = NULL /\ Commanded(opts) # << >>)
                   => rstatus = (IF AnyCallFailed THEN INSTALL_ERROR
                                 ELSE INSTALL_SUCCESS)
             /\ Commanded(opts) = << >> => rstatus = INSTALL_ERROR]_vars

\* --wipe_data: DATA: could not be erased, CACHE: was erased all the same.
C34_Witness ==
    /\ rpc = "prompt"
    /\ caller = "main"
    /\ opts.update_package = NULL
    /\ opts.wipe_data = 1
    /\ main_calls = << [call |-> "device_wipe_data", st |-> INSTALL_SUCCESS],
                       [call |-> "erase DATA:", st |-> INSTALL_ERROR],
                       [call |-> "erase CACHE:", st |-> INSTALL_SUCCESS] >>
    /\ rstatus = INSTALL_ERROR

\* ------------------------------------------ claims: wipe_data's question

\* wipe_data runs with the confirmation menu.
AskedFirst == m_fn = "wipe_data" /\ confirm # 0

\* C35: wipe_data called with confirmation erases nothing (it calls neither
\* device_wipe_data nor erase_root) unless the menu returns exactly the
\* confirm item, index 1; with any other selection, back included, it
\* returns without having touched DATA: or CACHE:.
C35_WipesOnlyWhenConfirmed ==
    /\ []((AskedFirst /\ chosen_item # 1)
             => (m_calls = << >> /\ m_pc \in {"get_menu_selection", "chosen",
                                             "returned"}))
    /\ [][(AskedFirst /\ m_calls' # m_calls)
             => (chosen_item = 1 /\ selected = 1
                 /\ action = Code("SELECT_ITEM"))]_vars
    /\ [][(AskedFirst /\ m_pc = "chosen" /\ chosen_item # 1)
             => (m_pc' = "returned" /\ m_calls' = << >>)]_vars

\* The user went down to the confirm item and chose it: everything is wiped.
C35_Witness ==
    /\ AskedFirst
    /\ m_pc = "returned"
    /\ chosen_item = 1
    /\ Len(m_calls) = 3
    /\ m_calls[1].call = "device_wipe_data"
    /\ m_calls[2].call = "erase DATA:"
    /\ m_calls[3].call = "erase CACHE:"

\* ------------------------------------- claims: process_partition's sizes

\* C36: in process_partition, whatever keys are pressed, the three sizes
\* stay at 0 or above and together within the card's size; the partitioning
\* script is run only after SELECT_ITEM with a vfat size above 0 and a
\* second, confirming key, with the sizes shown, and never after back.
C36_SizesWithinCard ==
    /\ [](m_fn = "process_partition"
             => /\ mbvf >= 0
                /\ mbex >= 0
                /\ mbsw >= 0
                /\ mbvf + mbex + mbsw <= mbsd)
    /\ [][(m_fn = "process_partition" /\ m_calls' # m_calls)
             => /\ action = Code("SELECT_ITEM")
                /\ mbvf > 0
                /\ key' \in ConfirmKeys
                /\ m_calls = << >>
                /\ m_calls' = << [call |-> "execute",
                                  args |-> << mbvf, mbex, mbsw >>] >>]_vars
    /\ []((m_fn = "process_partition" /\ action = Code("SELECT_BACK"))
             => (m_calls = << >> /\ m_pc = "returned"))

\* vfat was taken down by a step, swap up by one, and the script was run
\* with these sizes.
C36_Witness ==
    /\ m_fn = "process_partition"
    /\ m_pc = "returned"
    /\ mbsd = 300
    /\ m_calls = << [call |-> "execute", args |-> << 82, 90, 16 >>] >>

====
